---- MODULE Spec2Model ----
(***************************************************************************)
(* A model of the replay-log interpreter of ps-vis (src/src/lib/parser.ts  *)
(* and src/src/lib/utils.ts): the parse context, one action per log-record *)
(* handler of parseLog, and the summary assembler.                         *)
(*                                                                         *)
(* Strings are sequences of one-character strings, so that the text        *)
(* functions (toId, trim, includes, split, ...) are computed and not       *)
(* assumed.  The JavaScript value undefined is Undef.  A markup string is  *)
(* a sequence of segments: text segments and icon segments (one <img>).    *)
(***************************************************************************)
EXTENDS Integers, Sequences, FiniteSets, TLC

(***************************************************************************)
(* Characters and strings                                                  *)
(***************************************************************************)
UpperSeq == <<"A","B","C","D","E","F","G","H","I","J","K","L","M","N","O","P","Q","R","S","T","U","V","W","X","Y","Z">>
LowerSeq == <<"a","b","c","d","e","f","g","h","i","j","k","l","m","n","o","p","q","r","s","t","u","v","w","x","y","z">>
DigitSeq == <<"0","1","2","3","4","5","6","7","8","9">>

RangeOf(s) == {s[i] : i \in 1..Len(s)}
UpperLetters == RangeOf(UpperSeq)
LowerLetters == RangeOf(LowerSeq)
Digits == RangeOf(DigitSeq)

\* the three non-ASCII characters of the program's output, one character each
EmDash == "&mdash;"
RightArrow == "&rarr;"
MiddleDot == "&middot;"

\* the value of an absent field, an unset optional, a failed lookup
Undef == <<"undefined">>
\* JavaScript truthiness of a string-or-undefined value
Truthy(s) == s # Undef /\ s # <<>>
\* a || b  on string-or-undefined values
Or(a, b) == IF Truthy(a) THEN a ELSE b

\* The element of a one-element set.  The({e : x \in {v}}) is e with x standing
\* for the value v: a const of the program, computed once and then used.
The(S) == CHOOSE v \in S : TRUE

\* The concatenation of the strings of a list, split in halves.
RECURSIVE Concat(_)
Concat(list) ==
  IF list = <<>> THEN <<>>
  ELSE IF Len(list) = 1 THEN list[1]
  ELSE The({ Concat(SubSeq(list, 1, h)) \o Concat(SubSeq(list, h + 1, Len(list)))
             : h \in {Len(list) \div 2} })

\* String.prototype.toLowerCase, per character
LowerChar(c) ==
  IF c \in UpperLetters
    THEN LowerSeq[CHOOSE i \in 1..Len(UpperSeq) : UpperSeq[i] = c]
    ELSE c
UpperChar(c) ==
  IF c \in LowerLetters
    THEN UpperSeq[CHOOSE i \in 1..Len(LowerSeq) : LowerSeq[i] = c]
    ELSE c
toLowerCase(s) == [i \in 1..Len(s) |-> LowerChar(s[i])]
toUpperCase(s) == [i \in 1..Len(s) |-> UpperChar(s[i])]

IsSpace(c) == c = " "
IsWordChar(c) == c \in UpperLetters \cup LowerLetters \cup Digits \cup {"_"}

\* s.slice(i) with a 0-based index
Drop(s, n) == IF n >= Len(s) THEN <<>> ELSE SubSeq(s, n + 1, Len(s))
Take(s, n) == IF n >= Len(s) THEN s ELSE SubSeq(s, 1, n)

startsWith(s, p) == Len(p) <= Len(s) /\ SubSeq(s, 1, Len(p)) = p
endsWith(s, p) == Len(p) <= Len(s) /\ SubSeq(s, Len(s) - Len(p) + 1, Len(s)) = p
includes(s, p) == \E i \in 0..(Len(s) - Len(p)) : SubSeq(s, i + 1, i + Len(p)) = p
\* s.indexOf(p), 0-based; Len(s) + 1 stands for "not found" in the callers below
IndexOf(s, p) ==
  IF includes(s, p)
    THEN CHOOSE i \in 0..(Len(s) - Len(p)) :
           /\ SubSeq(s, i + 1, i + Len(p)) = p
           /\ \A j \in 0..(i - 1) : SubSeq(s, j + 1, j + Len(p)) # p
    ELSE Len(s) + 1

RECURSIVE TrimStart(_)
TrimStart(s) == IF s # <<>> /\ IsSpace(s[1]) THEN TrimStart(Tail(s)) ELSE s
RECURSIVE TrimEnd(_)
TrimEnd(s) ==
  IF s # <<>> /\ IsSpace(s[Len(s)]) THEN TrimEnd(SubSeq(s, 1, Len(s) - 1)) ELSE s
trim(s) == TrimEnd(TrimStart(s))

\* s.split(sep) for a one-character separator: always at least one piece
RECURSIVE split(_, _)
split(s, sep) ==
  IF ~includes(s, <<sep>>)
    THEN <<s>>
    ELSE The({ <<Take(s, i)>> \o split(Drop(s, i + 1), sep)
               : i \in {IndexOf(s, <<sep>>)} })

\* list.join(sep)
RECURSIVE join(_, _)
join(list, sep) ==
  IF list = <<>> THEN <<>>
  ELSE IF Len(list) = 1 THEN list[1]
  ELSE list[1] \o sep \o join(Tail(list), sep)

\* s.replace(/\s+/g, " "): every run of blanks becomes one blank
SquashSpaces(s) ==
  Concat([i \in 1..Len(s) |->
            IF ~IsSpace(s[i]) THEN <<s[i]>>
            ELSE IF i > 1 /\ IsSpace(s[i - 1]) THEN <<>>
            ELSE <<" ">>])

\* the decimal digits of a natural number
RECURSIVE NatToStr(_)
NatToStr(n) ==
  IF n < 10 THEN <<DigitSeq[n + 1]>>
  ELSE NatToStr(n \div 10) \o <<DigitSeq[(n % 10) + 1]>>

\* The JavaScript number NaN; every other number of the model is a natural.
NaN == 0 - 1
DigitValue(c) == (CHOOSE i \in 1..Len(DigitSeq) : DigitSeq[i] = c) - 1
RECURSIVE DigitsValue(_)
DigitsValue(s) ==
  IF s = <<>> THEN 0
  ELSE DigitsValue(SubSeq(s, 1, Len(s) - 1)) * 10 + DigitValue(s[Len(s)])
\* Number(x) for x undefined, blank, a digit string or a non-numeric word
Number(x) ==
  IF x = Undef THEN NaN
  ELSE The({ IF t = <<>> THEN 0
             ELSE IF \A i \in 1..Len(t) : t[i] \in Digits THEN DigitsValue(t)
             ELSE NaN
             : t \in {trim(x)} })
\* `${n}` for a number
NumToStr(n) == IF n = NaN THEN <<"N","a","N">> ELSE NatToStr(n)
\* a === b on numbers (NaN equals nothing, itself included)
StrictEqNum(a, b) == a # NaN /\ b # NaN /\ a = b
\* `${x}` for a string-or-undefined value
Str(x) == IF x = Undef THEN <<"u","n","d","e","f","i","n","e","d">> ELSE x

(***************************************************************************)
(* utils.ts                                                                *)
(***************************************************************************)
IsIdChar(c) == c \in LowerLetters \cup Digits
IsIconIdChar(c) == c \in LowerLetters \cup Digits \cup {"-"}

\* variant: the characters are filtered without lower-casing
toIdKeepingCase(text) ==
  IF ~Truthy(text) THEN <<>> ELSE SelectSeq(text, IsIdChar)

toId(text) ==
  IF ~Truthy(text) THEN <<>> ELSE SelectSeq(toLowerCase(text), IsIdChar)

toIconId(text) ==
  IF ~Truthy(text) THEN <<>> ELSE SelectSeq(toLowerCase(text), IsIconIdChar)

\* raw.trim().split(/\s+/).filter(Boolean)
RECURSIVE Tokens(_)
Tokens(s) ==
  The({ IF t = <<>> THEN <<>>
        ELSE The({ <<Take(t, n)>> \o Tokens(Drop(t, n))
                   : n \in {IF includes(t, <<" ">>) THEN IndexOf(t, <<" ">>)
                            ELSE Len(t)} })
        : t \in {TrimStart(s)} })

IsNotFnt(token) == token # <<"f","n","t">>

parseHPStatus(raw) ==
  The({
    IF tokens = <<>>
      THEN [raw |-> raw, hp |-> Undef, status |-> Undef, fainted |-> FALSE]
      ELSE The({
             [raw |-> raw,
              hp |-> IF includes(hpToken, <<"/">>) THEN hpToken
                     ELSE IF hpToken = <<"0">> /\ fainted THEN <<"0","/","1","0","0">>
                     ELSE Undef,
              status |-> IF statusTokens # <<>> THEN join(statusTokens, <<" ">>)
                         ELSE Undef,
              fainted |-> fainted]
             : hpToken \in {tokens[1]},
               fainted \in {\/ \E i \in 2..Len(tokens) : tokens[i] = <<"f","n","t">>
                            \/ (tokens[1] = <<"0">> /\ Len(tokens) = 1)},
               statusTokens \in {SelectSeq(Tail(tokens), IsNotFnt)} })
    : tokens \in {Tokens(raw)} })

\* value.hp.match(/^(\d+)\/100$/)
IsPercentFraction(hp) ==
  /\ endsWith(hp, <<"/","1","0","0">>)
  /\ Len(hp) > 4
  /\ \A i \in 1..(Len(hp) - 4) : hp[i] \in Digits

\* variant: the fraction is shown as it is
formatHPStatusPlain(value) ==
  IF value.fainted THEN <<"K","O">>
  ELSE Or(join((IF Truthy(value.hp) THEN <<value.hp>> ELSE <<>>)
               \o (IF Truthy(value.status)
                     THEN <<toUpperCase(value.status)>> ELSE <<>>),
               <<" ">>),
          value.raw)

formatHPStatus(value) ==
  IF value.fainted THEN <<"K","O">>
  ELSE LET hpPart == IF Truthy(value.hp)
                       THEN IF IsPercentFraction(value.hp)
                              THEN <<Take(value.hp, Len(value.hp) - 4) \o <<"%">>>>
                              ELSE <<value.hp>>
                       ELSE <<>>
           stPart == IF Truthy(value.status)
                       THEN <<toUpperCase(value.status)>> ELSE <<>>
           joined == join(hpPart \o stPart, <<" ">>)
       IN  Or(joined, value.raw)

\* chunk[0].toUpperCase() + chunk.slice(1) on every blank-separated chunk
CapChunk(chunk) ==
  IF chunk = <<>> THEN <<>> ELSE <<UpperChar(chunk[1])>> \o Tail(chunk)
prettifyMove(move) ==
  The({ join([i \in 1..Len(chunks) |-> CapChunk(chunks[i])], <<" ">>)
        : chunks \in {split(move, " ")} })

\* cleanRest.replace(/^(ability|item|move):\s*/i, '')
StripSourcePrefix(s) ==
  The({ IF startsWith(l, <<"a","b","i","l","i","t","y",":">>) THEN TrimStart(Drop(s, 8))
        ELSE IF startsWith(l, <<"i","t","e","m",":">>) THEN TrimStart(Drop(s, 5))
        ELSE IF startsWith(l, <<"m","o","v","e",":">>) THEN TrimStart(Drop(s, 5))
        ELSE s
        : l \in {toLowerCase(s)} })

\* segment.match(/^\[(.+?)\]\s*(.*)$/): "[", a shortest non-empty tag, "]"
HasBracket(segment) ==
  /\ Len(segment) >= 3
  /\ segment[1] = "["
  /\ includes(Drop(segment, 2), <<"]">>)
BracketTag(segment) == Take(Drop(segment, 1), 1 + IndexOf(Drop(segment, 2), <<"]">>))
BracketRest(segment) == Drop(segment, 3 + IndexOf(Drop(segment, 2), <<"]">>))

simplifyBracketText(segment) ==
  IF ~Truthy(segment) THEN <<>>
  ELSE IF ~HasBracket(segment) THEN trim(segment)
  ELSE The({
         CASE tag = <<"f","r","o","m">> ->
                IF cleanRest = <<>> THEN <<>> ELSE StripSourcePrefix(cleanRest)
           [] tag = <<"o","f">> -> <<>>
           [] tag = <<"m","s","g">> -> cleanRest
           [] tag = <<"s","i","d">> ->
                IF cleanRest # <<>> THEN <<"s","i","d","e"," ">> \o cleanRest ELSE <<>>
           [] tag = <<"w","i","s","h","e","r">> ->
                IF cleanRest # <<>> THEN <<"W","i","s","h"," ","f","r","o","m"," ">> \o cleanRest ELSE <<"W","i","s","h">>
           [] tag = <<"s","p","r","e","a","d">> -> <<>>
           [] tag = <<"m","o","v","e">> -> cleanRest
           [] OTHER -> Or(cleanRest, tag)
         : tag \in {BracketTag(segment)}, cleanRest \in {trim(BracketRest(segment))} })

(***************************************************************************)
(* Markup: a sequence of segments, a text segment or an icon (one <img>).  *)
(***************************************************************************)
TextSeg(s) == [k |-> "t", s |-> s, id |-> <<>>]
IconSeg(id, alt) == [k |-> "i", s |-> alt, id |-> id]
\* the markup consisting of the text s
HtmlOf(s) == IF s = <<>> THEN <<>> ELSE <<TextSeg(s)>>
\* a markup parameter that was not passed
NoHtml == <<[k |-> "undefined", s |-> <<>>, id |-> <<>>]>>
\* a + b on markup strings: adjacent text segments are one text segment
HCat(a, b) ==
  IF a = <<>> THEN b
  ELSE IF b = <<>> THEN a
  ELSE IF a[Len(a)].k = "t" /\ b[1].k = "t"
    THEN SubSeq(a, 1, Len(a) - 1) \o <<TextSeg(a[Len(a)].s \o b[1].s)>> \o Tail(b)
    ELSE a \o b
\* the characters of a markup string; an <img> tag is abbreviated to <img ID>
RECURSIVE HtmlChars(_)
HtmlChars(h) ==
  IF h = <<>> THEN <<>>
  ELSE (IF h[1].k = "t" THEN h[1].s ELSE <<"<","i","m","g"," ">> \o h[1].id \o <<">">>)
       \o HtmlChars(Tail(h))
\* html.trim(): blanks can only be cut from text segments at either end
RECURSIVE HtmlTrimStart(_)
HtmlTrimStart(h) ==
  IF h = <<>> \/ h[1].k # "t" THEN h
  ELSE LET s == TrimStart(h[1].s)
       IN  IF s = <<>> THEN HtmlTrimStart(Tail(h)) ELSE <<TextSeg(s)>> \o Tail(h)
RECURSIVE HtmlTrimEnd(_)
HtmlTrimEnd(h) ==
  IF h = <<>> \/ h[Len(h)].k # "t" THEN h
  ELSE LET s == TrimEnd(h[Len(h)].s)
           front == SubSeq(h, 1, Len(h) - 1)
       IN  IF s = <<>> THEN HtmlTrimEnd(front) ELSE front \o <<TextSeg(s)>>
HtmlTrim(h) == HtmlTrimEnd(HtmlTrimStart(h))
\* list.join(sep) on markup strings
RECURSIVE HtmlJoin(_, _)
HtmlJoin(list, sep) ==
  IF list = <<>> THEN <<>>
  ELSE IF Len(list) = 1 THEN list[1]
  ELSE HCat(list[1], HCat(HtmlOf(sep), HtmlJoin(Tail(list), sep)))

(***************************************************************************)
(* pokemonIcons.ts                                                         *)
(***************************************************************************)
DEFAULT_ICON_ID == <<"p","o","k","e","b","a","l","l">>

\* text.replace(/"/g, '&quot;')
escapeAltText(text) ==
  Concat([i \in 1..Len(text) |->
            IF text[i] = "\"" THEN <<"&","q","u","o","t",";">> ELSE <<text[i]>>])

\* the URL of the icon, abbreviated to the identifier in it
getPokemonIconUrl(rawId) ==
  IF Truthy(rawId) /\ trim(rawId) # <<>> THEN trim(rawId) ELSE DEFAULT_ICON_ID

renderPokemonIcon(rawId, alt) ==
  <<IconSeg(getPokemonIconUrl(rawId), escapeAltText(alt))>>

(***************************************************************************)
(* parser.ts: values                                                       *)
(***************************************************************************)
P1 == <<"p","1">>
P2 == <<"p","2">>
Sides == {P1, P2}

resolveSide(ref) == IF startsWith(ref, P2) THEN P2 ELSE P1

IsTruthyStr(s) == Truthy(s)
\* parts.slice(startIndex).map(simplifyBracketText).filter(Boolean)
parseExtras(parts, startIndex) ==
  LET rest == Drop(parts, startIndex)
  IN  SelectSeq([i \in 1..Len(rest) |-> simplifyBracketText(rest[i])], IsTruthyStr)

formatExtras(extras) ==
  LET filtered == SelectSeq(extras, IsTruthyStr)
  IN  IF filtered # <<>> THEN <<" ","(">> \o join(filtered, <<";"," ">>) \o <<")">> ELSE <<>>

normalizeWeatherName(weather) ==
  The({ IF includes(normalized, <<"r","a","i","n","d","a","n","c","e">>) THEN <<"R","a","i","n">>
        ELSE IF includes(normalized, <<"s","a","n","d","s","t","o","r","m">>) THEN <<"S","a","n","d","s","t","o","r","m">>
        ELSE IF includes(normalized, <<"s","u","n","n","y","d","a","y">>) THEN <<"S","u","n">>
        ELSE IF includes(normalized, <<"h","a","i","l">>) THEN <<"H","a","i","l">>
        ELSE IF includes(normalized, <<"s","n","o","w">>) THEN <<"S","n","o","w">>
        ELSE weather
        : normalized \in {toLowerCase(weather)} })

normalizeFieldName(field) ==
  The({ IF includes(normalized, <<"P","s","y","c","h","i","c"," ","T","e","r","r","a","i","n">>) THEN <<"P","s","y","c","h","i","c"," ","T","e","r","r","a","i","n">>
        ELSE IF includes(normalized, <<"E","l","e","c","t","r","i","c"," ","T","e","r","r","a","i","n">>) THEN <<"E","l","e","c","t","r","i","c"," ","T","e","r","r","a","i","n">>
        ELSE IF includes(normalized, <<"G","r","a","s","s","y"," ","T","e","r","r","a","i","n">>) THEN <<"G","r","a","s","s","y"," ","T","e","r","r","a","i","n">>
        ELSE IF includes(normalized, <<"M","i","s","t","y"," ","T","e","r","r","a","i","n">>) THEN <<"M","i","s","t","y"," ","T","e","r","r","a","i","n">>
        ELSE IF includes(normalized, <<"T","r","i","c","k"," ","R","o","o","m">>) THEN <<"T","r","i","c","k"," ","R","o","o","m">>
        ELSE IF includes(normalized, <<"M","a","g","i","c"," ","R","o","o","m">>) THEN <<"M","a","g","i","c"," ","R","o","o","m">>
        ELSE IF includes(normalized, <<"W","o","n","d","e","r"," ","R","o","o","m">>) THEN <<"W","o","n","d","e","r"," ","R","o","o","m">>
        ELSE IF includes(normalized, <<"G","r","a","v","i","t","y">>) THEN <<"G","r","a","v","i","t","y">>
        ELSE normalized
        : normalized \in {IF startsWith(toLowerCase(field), <<"m","o","v","e",":">>)
                            THEN TrimStart(Drop(field, 5)) ELSE field} })

\* list.includes(x)
Contains(list, x) == \E i \in 1..Len(list) : list[i] = x
\* list.indexOf(x), 1-based, 0 when absent
ListIndexOf(list, x) ==
  IF Contains(list, x)
    THEN CHOOSE i \in 1..Len(list) :
           list[i] = x /\ \A j \in 1..(i - 1) : list[j] # x
    ELSE 0

\* the i-th field of a record (0-based), undefined past its end
Part(parts, i) == IF i < Len(parts) THEN parts[i + 1] ELSE Undef

NoAction == <<>>

createTurn(turn, label) ==
  [turn |-> turn, label |-> label, headerEvents |-> <<>>, actions |-> <<>>,
   endEvents |-> <<>>, leadEntries |-> <<>>]

NoBoost == [ref |-> Undef, ability |-> Undef, boosts |-> <<>>, set |-> FALSE]

createInitialContext ==
  [players |-> [p1 |-> <<"P","l","a","y","e","r"," ","1">>, p2 |-> <<"P","l","a","y","e","r"," ","2">>],
   formatName |-> Undef,
   turns |-> <<createTurn(0, <<"L","e","a","d">>)>>,
   currentTurn |-> 1,
   currentAction |-> NoAction,
   pokemon |-> <<>>,
   teams |-> [p1 |-> <<>>, p2 |-> <<>>, p1Set |-> {}, p2Set |-> {}],
   winner |-> Undef,
   loser |-> Undef,
   resultNote |-> Undef,
   leadPhase |-> TRUE,
   faintedThisTurn |-> {},
   currentWeather |-> Undef,
   sideConditions |-> [p1 |-> {}, p2 |-> {}],
   pendingAbilityBoost |-> NoBoost,
   recentMoves |-> <<>>,
   activePositions |-> <<>>,
   pendingFieldEnds |-> <<>>,
   pendingProtects |-> {}]

\* ctx.currentTurn and ctx.currentAction are references: an index into
\* ctx.turns, and a pair <<turn index, action index>> (NoAction for null)
CurTurn(c) == c.turns[c.currentTurn]
HasAction(c) == c.currentAction # NoAction
CurAction(c) == c.turns[c.currentAction[1]].actions[c.currentAction[2]]

\* ctx.pokemon is a map from ref to PokemonState
HasMon(c, ref) == ref \in DOMAIN c.pokemon
\* mon?.nickname || mon?.species
MonName(c, ref) ==
  IF HasMon(c, ref) THEN Or(c.pokemon[ref].nickname, c.pokemon[ref].species)
  ELSE Undef
MonIconId(c, ref) == IF HasMon(c, ref) THEN c.pokemon[ref].iconId ELSE Undef

SideKey(side) == IF side = P1 THEN "p1" ELSE "p2"
Team(c, side) == IF side = P1 THEN c.teams.p1 ELSE c.teams.p2
TeamSet(c, side) == IF side = P1 THEN c.teams.p1Set ELSE c.teams.p2Set

hasSpeciesOnBothSides(c, species) ==
  Contains(c.teams.p1, species) /\ Contains(c.teams.p2, species)

getPokemonDisplayName(c, ref) ==
  IF ~HasMon(c, ref) THEN ref
  ELSE LET mon == c.pokemon[ref]
           baseName == Or(mon.nickname, mon.species)
       IN  IF resolveSide(ref) = P2 /\ hasSpeciesOnBothSides(c, mon.species)
             THEN Str(baseName) \o <<" ","(","o","p","p",")">>
             ELSE baseName

(***************************************************************************)
(* parser.ts: helpers of the dispatcher.  A helper that mutates the        *)
(* context is an operator from the context to the context after it.        *)
(***************************************************************************)
\* text.replace(/&/g, "&amp;").replace(/</g, "&lt;").replace(/>/g, "&gt;")
EscapeHtml(text) ==
  Concat([i \in 1..Len(text) |->
            IF text[i] = "&" THEN <<"&","a","m","p",";">>
            ELSE IF text[i] = "<" THEN <<"&","l","t",";">>
            ELSE IF text[i] = ">" THEN <<"&","g","t",";">>
            ELSE <<text[i]>>])

makeDetail(text, html) ==
  IF ~Truthy(text) /\ (html = NoHtml \/ html = <<>>)
    THEN [text |-> <<>>, html |-> <<>>]
    ELSE [text |-> text,
          html |-> IF html = NoHtml THEN HtmlOf(EscapeHtml(text)) ELSE html]

flushPendingFieldEnds(c) ==
  IF c.pendingFieldEnds = <<>> THEN c
  ELSE LET fieldEndTexts == [i \in 1..Len(c.pendingFieldEnds) |->
                               c.pendingFieldEnds[i] \o <<" ","e","n","d","s">>]
           combined == join(fieldEndTexts, <<";"," ">>)
       IN  [c EXCEPT !.turns[c.currentTurn].endEvents =
                        Append(@, makeDetail(combined, NoHtml)),
                     !.pendingFieldEnds = <<>>]

\* ensureCurrentTurn without the assignment to ctx.currentTurn: the new turn is
\* pushed, the current turn stays.
pushTurnOnly(c, turnNumber) ==
  IF StrictEqNum(CurTurn(c).turn, turnNumber) THEN c
  ELSE The({ [f EXCEPT !.turns = Append(@, createTurn(turnNumber, Undef)),
                       !.currentAction = NoAction,
                       !.faintedThisTurn = {},
                       !.recentMoves = <<>>,
                       !.pendingProtects = {}]
             : f \in {flushPendingFieldEnds(c)} })

ensureCurrentTurn(c, turnNumber) ==
  IF StrictEqNum(CurTurn(c).turn, turnNumber) THEN c
  ELSE The({ [f EXCEPT !.turns = Append(@, createTurn(turnNumber, Undef)),
                       !.currentTurn = Len(f.turns) + 1,
                       !.currentAction = NoAction,
                       !.faintedThisTurn = {},
                       !.recentMoves = <<>>,
                       !.pendingProtects = {}]
             : f \in {flushPendingFieldEnds(c)} })

\* addSpecies for a side that is p1 or p2 (any other side: see Raises)
addSpecies(c, side, species) ==
  The({ IF toId(normalized) = <<>> \/ side \notin Sides THEN c
        ELSE IF normalized \in TeamSet(c, side) THEN c
        ELSE IF side = P1
          THEN [c EXCEPT !.teams.p1Set = @ \cup {normalized},
                         !.teams.p1 = Append(@, normalized)]
          ELSE [c EXCEPT !.teams.p2Set = @ \cup {normalized},
                         !.teams.p2 = Append(@, normalized)]
        : normalized \in {trim(species)} })

IsRefChar(ch) == ch \in LowerLetters \cup UpperLetters \cup Digits
\* raw.match(/^([a-z0-9]+):\s*(.+)$/i)
RefMatches(raw) ==
  /\ includes(raw, <<":">>)
  /\ \E i \in {IndexOf(raw, <<":">>)} :
         /\ i >= 1
         /\ \A j \in 1..i : IsRefChar(raw[j])
         /\ Len(raw) > i + 1

parsePokemonRef(raw) ==
  IF ~RefMatches(raw)
    THEN The({ [ref |-> t, nickname |-> t, side |-> resolveSide(t)]
               : t \in {trim(raw)} })
    ELSE The({ The({
           [ref |-> Take(raw, i),
            \* an all-blank rest leaves its last blank to the nickname group
            nickname |-> IF stripped = <<>> THEN <<" ">> ELSE stripped,
            side |-> resolveSide(Take(raw, i))]
           : stripped \in {TrimStart(Drop(raw, i + 1))} })
           : i \in {IndexOf(raw, <<":">>)} })

\* the context after getOrCreatePokemon(ctx, ref, side, species); species
\* undefined stands for the default parameter 'Unknown'
getOrCreatePokemon(c, ref, side, species) ==
  IF HasMon(c, ref) THEN c
  ELSE LET sp == IF species = Undef THEN <<"U","n","k","n","o","w","n">> ELSE species
           created == [ref |-> ref, side |-> side, nickname |-> Undef,
                       species |-> sp,
                       iconId |-> Or(toIconId(sp), DEFAULT_ICON_ID),
                       lastDisplayHP |-> Undef, status |-> Undef,
                       fainted |-> FALSE]
       IN  [c EXCEPT !.pokemon = (ref :> created) @@ c.pokemon]

updatePokemonSpecies(c, ref, species) ==
  The({ addSpecies(m, resolveSide(ref), species)
        : m \in {[getOrCreatePokemon(c, ref, resolveSide(ref), species)
                    EXCEPT !.pokemon[ref].species = species,
                           !.pokemon[ref].iconId = Or(toIconId(species), @)]} })

setCurrentAction(c, action) ==
  [c EXCEPT !.turns[c.currentTurn].actions = Append(@, action),
            !.currentAction = <<c.currentTurn, Len(CurTurn(c).actions) + 1>>]

isEndOfTurnSource(source) ==
  \E lowerSource \in {toLowerCase(source)} :
      \/ includes(lowerSource, <<"l","e","f","t","o","v","e","r","s">>)
      \/ includes(lowerSource, <<"b","l","a","c","k"," ","s","l","u","d","g","e">>)
      \/ includes(lowerSource, <<"p","s","n">>)
      \/ includes(lowerSource, <<"p","o","i","s","o","n">>)
      \/ includes(lowerSource, <<"b","r","n">>)
      \/ includes(lowerSource, <<"b","u","r","n">>)
      \/ includes(lowerSource, <<"s","a","n","d","s","t","o","r","m">>)
      \/ includes(lowerSource, <<"h","a","i","l">>)
      \/ includes(lowerSource, <<"g","r","a","s","s","y"," ","t","e","r","r","a","i","n">>)
      \/ includes(lowerSource, <<"a","q","u","a"," ","r","i","n","g">>)
      \/ includes(lowerSource, <<"i","n","g","r","a","i","n">>)
      \/ includes(lowerSource, <<"l","e","e","c","h"," ","s","e","e","d">>)

\* appendDetail without its forceEndEvent parameter: the open action, when
\* there is one, takes the detail.
appendDetailUnforced(c, detail, forceEndEvent) ==
  IF detail.text = <<>> /\ detail.html = <<>> THEN c
  ELSE IF ~HasAction(c)
    THEN [c EXCEPT !.turns[c.currentTurn].endEvents = Append(@, detail)]
    ELSE [c EXCEPT !.turns[c.currentAction[1]].actions[c.currentAction[2]].details =
                      Append(@, detail)]

\* appendDetail with a DetailEntry
appendDetail(c, detail, forceEndEvent) ==
  IF detail.text = <<>> /\ detail.html = <<>> THEN c
  ELSE IF forceEndEvent \/ ~HasAction(c)
    THEN [c EXCEPT !.turns[c.currentTurn].endEvents = Append(@, detail)]
    ELSE [c EXCEPT !.turns[c.currentAction[1]].actions[c.currentAction[2]].details =
                      Append(@, detail)]

\* appendDetail with a string
appendDetailString(c, detail) ==
  IF trim(detail) = <<>> THEN c
  ELSE appendDetail(c, makeDetail(detail, NoHtml), FALSE)

pushHeaderEvent(c, text) ==
  IF CurTurn(c).actions = <<>>
    THEN [c EXCEPT !.turns[c.currentTurn].headerEvents = Append(@, text)]
    ELSE [c EXCEPT !.turns[c.currentTurn].endEvents =
                      Append(@, makeDetail(text, NoHtml))]

iconHTML(iconId, alt) == renderPokemonIcon(Or(iconId, DEFAULT_ICON_ID), alt)

\* the DetailEntry of detailWithIcon(ctx, ref, body); the registry entry it
\* creates for an unknown ref is getOrCreatePokemon(c, ref, side, Undef)
detailWithIcon(c, ref, body) ==
  The({ The({
    makeDetail(trim(Str(label) \o <<" ">> \o body),
               HtmlTrim(HCat(iconHTML(g.pokemon[ref].iconId, label), HtmlOf(body))))
    : label \in {getPokemonDisplayName(g, ref)} })
    : g \in {getOrCreatePokemon(c, ref, resolveSide(ref), Undef)} })

HasText(d) == d.text # <<>>
combineDetails(details) ==
  The({
    IF details = <<>> \/ (text = <<>> /\ html = <<>>)
      THEN [null |-> TRUE, text |-> <<>>, html |-> <<>>]
      ELSE [null |-> FALSE,
            text |-> IF text # <<>> THEN text ELSE HtmlChars(html),
            html |-> IF html # <<>> THEN html ELSE HtmlOf(text)]
    : text \in {join(SelectSeq([i \in 1..Len(details) |-> details[i].text],
                               IsTruthyStr),
                     <<";"," ">>)},
      html \in {HtmlJoin(SelectSeq([i \in 1..Len(details) |->
                                      IF details[i].html # <<>> THEN details[i].html
                                      ELSE HtmlOf(details[i].text)],
                                   LAMBDA h : h # <<>>),
                         <<";"," ">>)} })

NewAction(type, actorRef, actorName, actorSpecies, actorIconId, side, verb) ==
  [type |-> type, actorRef |-> actorRef, actorName |-> actorName,
   actorSpecies |-> actorSpecies, actorIconId |-> actorIconId, side |-> side,
   verb |-> verb, targetRefs |-> <<>>, targetNames |-> <<>>,
   targetSpecies |-> <<>>, details |-> <<>>, fromIconId |-> Undef,
   fromName |-> Undef]

addNoteAction(c, ref, note) ==
  setCurrentAction(c,
    NewAction("note", ref, MonName(c, ref),
              IF HasMon(c, ref) THEN c.pokemon[ref].species ELSE Undef,
              MonIconId(c, ref), resolveSide(ref), note))

\* the refs of the buffered boosts in order of first appearance (the
\* insertion order of the boostsByTarget map)
RECURSIVE BoostTargets(_, _)
BoostTargets(boosts, seen) ==
  IF boosts = <<>> THEN <<>>
  ELSE IF Contains(seen, boosts[1].ref) THEN BoostTargets(Tail(boosts), seen)
  ELSE <<boosts[1].ref>> \o BoostTargets(Tail(boosts), Append(seen, boosts[1].ref))

BoostText(b) == b.direction \o NumToStr(b.amount) \o <<" ">> \o b.stat

\* the registry after detailWithIcon has been called for each ref of refs
RECURSIVE TouchAll(_, _)
TouchAll(c, refs) ==
  IF refs = <<>> THEN c
  ELSE The({ TouchAll(g, Tail(refs))
             : g \in {getOrCreatePokemon(c, refs[1], resolveSide(refs[1]), Undef)} })

\* the per-target details of a pending aggregation, each built after the
\* registry entries of the earlier targets exist
RECURSIVE BoostDetails(_, _, _)
BoostDetails(c, boosts, targets) ==
  IF targets = <<>> THEN <<>>
  ELSE The({
         <<detailWithIcon(c, targets[1],
                          join([i \in 1..Len(mine) |-> BoostText(mine[i])], <<","," ">>))>>
         \o BoostDetails(g, boosts, Tail(targets))
         : mine \in {SelectSeq(boosts, LAMBDA b : b.ref = targets[1])},
           g \in {getOrCreatePokemon(c, targets[1], resolveSide(targets[1]), Undef)} })

\* the context after the pending aggregation is emitted (or dropped) and
\* cleared; t is the registry after the details were built
finalizePendingAbilityBoost(c) ==
  IF ~c.pendingAbilityBoost.set THEN c
  ELSE The({ The({ The({
         [(IF combined.null THEN t
           ELSE IF t.leadPhase
                   \/ (StrictEqNum(CurTurn(t).turn, 1) /\ CurTurn(t).actions = <<>>)
             THEN pushHeaderEvent(t, combined.text)
             ELSE appendDetail(t, [text |-> combined.text, html |-> combined.html],
                               FALSE))
          EXCEPT !.pendingAbilityBoost = NoBoost]
         : combined \in {combineDetails(
                           <<makeDetail(abilityText,
                                        HCat(iconHTML(MonIconId(c, ref), pokemonName),
                                             HtmlOf(abilityText)))>>
                           \o BoostDetails(c, boosts, targets))},
           t \in {TouchAll(c, targets)} })
         : abilityText \in {pokemonName
                            \o (IF endsWith(pokemonName, <<"s">>) THEN <<"'">> ELSE <<"'","s">>)
                            \o <<" ">> \o Str(c.pendingAbilityBoost.ability)},
           targets \in {BoostTargets(boosts, <<>>)} })
         : ref \in {c.pendingAbilityBoost.ref},
           boosts \in {c.pendingAbilityBoost.boosts},
           pokemonName \in {Or(MonName(c, c.pendingAbilityBoost.ref),
                               c.pendingAbilityBoost.ref)} })

(***************************************************************************)
(* parseLog: one operator per case of the switch on the record's tag, from *)
(* the context before the record to the context after it.                  *)
(***************************************************************************)

\* /[+-]\d+\s+\w+/.test(s): a sign, digits, blanks, a word character
RECURSIVE SkipDigits(_, _)
SkipDigits(s, i) == IF i <= Len(s) /\ s[i] \in Digits THEN SkipDigits(s, i + 1) ELSE i
RECURSIVE SkipSpaces(_, _)
SkipSpaces(s, i) == IF i <= Len(s) /\ IsSpace(s[i]) THEN SkipSpaces(s, i + 1) ELSE i
IsBoostText(s) ==
  \E i \in 1..Len(s) :
    /\ s[i] \in {"+", "-"}
    /\ \E d \in {SkipDigits(s, i + 1)} :
         \E w \in {SkipSpaces(s, d)} :
           d > i + 1 /\ w > d /\ w <= Len(s) /\ IsWordChar(s[w])

casePlayer(c, parts) ==
  LET side == Part(parts, 1)
      name == Part(parts, 2)
  IN  IF ~Truthy(name) THEN c
      ELSE IF side = P1 THEN [c EXCEPT !.players.p1 = name]
      ELSE IF side = P2 THEN [c EXCEPT !.players.p2 = name]
      ELSE c

caseFormat(c, parts) ==
  IF ~Truthy(c.formatName) THEN [c EXCEPT !.formatName = Part(parts, 1)] ELSE c

caseWin(c, parts) == [c EXCEPT !.winner = Part(parts, 1)]

\* loserToken.replace(/^[^A-Za-z0-9]+/, "")
RECURSIVE StripLeadingNonAlnum(_)
StripLeadingNonAlnum(s) ==
  IF s # <<>> /\ ~IsRefChar(s[1]) THEN StripLeadingNonAlnum(Tail(s)) ELSE s

caseL(c, parts) ==
  [c EXCEPT !.loser = StripLeadingNonAlnum(Or(Part(parts, 1), <<>>))]

\* The case of a turn record without its last statement: the open action stays.
caseTurnKeepingAction(c, parts) ==
  The({ The({ [e EXCEPT !.currentAction = c.currentAction]
    : e \in {ensureCurrentTurn(f, Number(Part(parts, 1)))} })
    : f \in {[finalizePendingAbilityBoost(c) EXCEPT !.leadPhase = FALSE]} })

\* variant: the turn record leaves the lead-phase flag as it finds it.
caseTurnKeepingLead(c, parts) ==
  The({ The({ [e EXCEPT !.currentAction = NoAction]
    : e \in {ensureCurrentTurn(f, Number(Part(parts, 1)))} })
    : f \in {finalizePendingAbilityBoost(c)} })

caseTurn(c, parts) ==
  The({ The({ [e EXCEPT !.currentAction = NoAction]
    : e \in {ensureCurrentTurn(f, Number(Part(parts, 1)))} })
    : f \in {[finalizePendingAbilityBoost(c) EXCEPT !.leadPhase = FALSE]} })

casePoke(c, parts) ==
  addSpecies(c, Part(parts, 1), split(Part(parts, 2), ",")[1])

\* ref.match(/^(p[12][ab])/)
PositionOf(ref) ==
  IF Len(ref) >= 3 /\ ref[1] = "p" /\ ref[2] \in {"1", "2"} /\ ref[3] \in {"a", "b"}
    THEN Take(ref, 3) ELSE Undef

\* A dispatcher that takes no extra of a switch record as forced by a move.
NeverForcedByMove(extra) == FALSE

\* an extra of a switch record that is taken as "forced by a move"
IsForcedByMove(extra) ==
  /\ ~includes(toLowerCase(extra), <<"a","b","i","l","i","t","y">>)
  /\ ~includes(toLowerCase(extra), <<"i","t","e","m">>)
  /\ Len(extra) > 0

\* the details of the open move with its boost details consolidated
consolidateBoosts(details) ==
  The({
    IF boostDetails # <<>>
      THEN <<makeDetail(
               join([i \in 1..Len(boostDetails) |-> boostDetails[i].text], <<","," ">>),
               HtmlJoin([i \in 1..Len(boostDetails) |->
                           IF boostDetails[i].html # <<>>
                             THEN boostDetails[i].html
                             ELSE HtmlOf(boostDetails[i].text)], <<","," ">>))>>
           \o SelectSeq(details, LAMBDA d : ~IsBoostText(trim(d.text)))
      ELSE details
    : boostDetails \in {SelectSeq(details, LAMBDA d : IsBoostText(trim(d.text)))} })

\* The three outcomes of a switch record, for the context m after the registry
\* update; previousIconId and previousName are the entry's icon and name before it.
switchMerged(m, ref, previousIconId, previousName, displayName) ==
  The({
    [m EXCEPT !.turns[m.currentAction[1]].actions[m.currentAction[2]].details =
                Append(consolidateBoosts(@),
                       makeDetail(switchText,
                                  IF previousIcon # <<>> /\ currentIcon # <<>>
                                    THEN HCat(previousIcon,
                                              HCat(HtmlOf(<<" ","-",">"," ">>), currentIcon))
                                  ELSE IF currentIcon # <<>> THEN currentIcon
                                  ELSE HtmlOf(switchText)))]
    : switchText \in {Or(previousName, <<"P","r","e","v","i","o","u","s">>) \o <<" ","-",">"," ">> \o displayName},
      previousIcon \in {IF Truthy(previousIconId)
                          THEN iconHTML(previousIconId, Or(previousName, <<"P","r","e","v","i","o","u","s">>))
                          ELSE <<>>},
      currentIcon \in {IF Truthy(m.pokemon[ref].iconId)
                         THEN iconHTML(m.pokemon[ref].iconId, displayName)
                         ELSE <<>>} })

switchLead(m, ref, side) ==
  The({
    [m EXCEPT !.turns[m.currentTurn].leadEntries =
                Append(@, [side |-> side,
                           html |-> iconHTML(m.pokemon[ref].iconId, label),
                           text |-> label]),
              !.currentAction = NoAction]
    : label \in {Or(Or(m.pokemon[ref].nickname, m.pokemon[ref].species), ref)} })

switchAction(m, ref, side, previousIconId, previousName, displayName, fainted) ==
  LET isReplacement == m.faintedThisTurn # {}
  IN  setCurrentAction(m,
        [NewAction("switch", ref, displayName, m.pokemon[ref].species,
                   m.pokemon[ref].iconId, side,
                   IF isReplacement THEN <<"e","n","t","e","r","s">> ELSE <<"s","w","i","t","c","h","e","s">>)
         EXCEPT !.details = IF fainted
                              THEN <<makeDetail(<<"f","a","i","n","t","e","d"," ","o","n"," ","e","n","t","r","y">>, NoHtml)>>
                              ELSE <<>>,
                !.fromIconId = IF isReplacement THEN Undef ELSE previousIconId,
                !.fromName = IF isReplacement THEN Undef ELSE previousName])

caseSwitch(c, parts) ==
  The({ The({ The({
    IF forcedByMove /\ HasAction(m) /\ CurAction(m).type = "move"
       /\ CurAction(m).actorRef = pr.ref
      THEN switchMerged(m, pr.ref, previousIconId, previousName, displayName)
    ELSE IF m.leadPhase
      THEN switchLead(m, pr.ref, pr.side)
    ELSE switchAction(m, pr.ref, pr.side, previousIconId, previousName, displayName,
                      hpStatus.fainted)
    : displayName \in {getPokemonDisplayName(m, pr.ref)} })
    : m \in {[updatePokemonSpecies(f, pr.ref, species)
                EXCEPT !.pokemon[pr.ref].nickname =
                         IF Truthy(pr.nickname) THEN pr.nickname ELSE @,
                       !.pokemon[pr.ref].lastDisplayHP = formatHPStatus(hpStatus),
                       !.pokemon[pr.ref].status = hpStatus.status,
                       !.pokemon[pr.ref].fainted = hpStatus.fainted,
                       !.activePositions =
                         IF PositionOf(pr.ref) # Undef
                           THEN (PositionOf(pr.ref) :> pr.ref) @@ @ ELSE @]},
      previousIconId \in {MonIconId(f, pr.ref)},
      previousName \in {MonName(f, pr.ref)} })
    : f \in {finalizePendingAbilityBoost(c)},
      pr \in {parsePokemonRef(Part(parts, 1))},
      species \in {split(Or(Part(parts, 2), <<>>), ",")[1]},
      hpStatus \in {parseHPStatus(Or(Part(parts, 3), <<>>))},
      forcedByMove \in {\E e \in RangeOf(parseExtras(parts, 4)) : IsForcedByMove(e)} })

caseMove(c, parts) ==
  The({ The({ The({
    setCurrentAction(m,
      [NewAction("move", pr.ref, getPokemonDisplayName(m, pr.ref),
                 m.pokemon[pr.ref].species, m.pokemon[pr.ref].iconId, pr.side, move)
       EXCEPT !.targetRefs = targetRefs,
              !.targetNames = [i \in 1..Len(targetRefs) |->
                                 getPokemonDisplayName(m, targetRefs[i])],
              !.targetSpecies =
                IF targetRefs # <<>>
                  THEN <<Or(Or(IF HasMon(f, targetInfo.ref)
                                 THEN f.pokemon[targetInfo.ref].species ELSE Undef,
                               targetInfo.nickname),
                            targetInfo.ref)>>
                  ELSE <<>>,
              !.details = IF extras # <<>>
                            THEN <<makeDetail(join(extras, <<";"," ">>), NoHtml)>>
                            ELSE <<>>])
    : m \in {[getOrCreatePokemon(f, pr.ref, pr.side, Undef)
                EXCEPT !.pokemon[pr.ref].nickname =
                         IF Truthy(pr.nickname) THEN pr.nickname ELSE @,
                       !.recentMoves = Append(@, [ref |-> pr.ref, move |-> move])]},
      targetRefs \in {IF Truthy(Part(parts, 3)) THEN <<targetInfo.ref>> ELSE <<>>} })
    : move \in {prettifyMove(Part(parts, 2))},
      targetInfo \in {IF Truthy(Part(parts, 3)) THEN parsePokemonRef(Part(parts, 3))
                      ELSE [ref |-> Undef, nickname |-> Undef, side |-> P1]} })
    : f \in {finalizePendingAbilityBoost(c)},
      pr \in {parsePokemonRef(Part(parts, 1))},
      extras \in {parseExtras(parts, 4)} })

caseCant(c, parts) ==
  LET ref == parsePokemonRef(Part(parts, 1)).ref
      reason == Part(parts, 2)
      move == IF Truthy(Part(parts, 3))
                THEN <<" ","w","h","i","l","e"," ","u","s","i","n","g"," ">> \o prettifyMove(Part(parts, 3)) ELSE <<>>
  IN  The({ addNoteAction(c, r, <<"c","a","n","'","t"," ","m","o","v","e"," ","(">> \o Str(reason) \o move \o <<")">>)
            : r \in {ref} })

\* the body shared by the cases that append one detailWithIcon
appendIconDetail(c, ref, body, forceEndEvent) ==
  The({ appendDetail(g, detail, forceEndEvent)
        : g \in {getOrCreatePokemon(c, ref, resolveSide(ref), Undef)},
          detail \in {detailWithIcon(c, ref, body)} })

caseDamage(c, parts) ==
  The({ The({ The({
    appendIconDetail(
      IF isEOT /\ m.pendingFieldEnds # <<>> THEN flushPendingFieldEnds(m) ELSE m,
      ref,
      IF extras # <<>> THEN change \o <<" ","(">> \o join(extras, <<";"," ">>) \o <<")">>
      ELSE change,
      isEOT)
    : m \in {[g EXCEPT !.pokemon[ref].lastDisplayHP = formatted,
                       !.pokemon[ref].status = hpStatus.status,
                       !.pokemon[ref].fainted = hpStatus.fainted]},
      change \in {IF Truthy(g.pokemon[ref].lastDisplayHP)
                     /\ g.pokemon[ref].lastDisplayHP # formatted
                    THEN g.pokemon[ref].lastDisplayHP \o <<" ","-",">"," ">> \o formatted
                    ELSE formatted} })
    : g \in {getOrCreatePokemon(c, ref, resolveSide(ref), Undef)},
      formatted \in {formatHPStatus(hpStatus)},
      isEOT \in {\E e \in RangeOf(extras) : isEndOfTurnSource(e)} })
    : ref \in {parsePokemonRef(Part(parts, 1)).ref},
      hpStatus \in {parseHPStatus(Part(parts, 2))},
      extras \in {parseExtras(parts, 3)} })

\* variant: the self-buff test comes before the test of the pending
\* aggregation.
caseBoostInlineFirst(c, parts) ==
  The({ The({
    IF /\ HasAction(c)
            /\ CurAction(c).type = "move"
            /\ CurAction(c).actorRef = ref
            /\ \/ CurAction(c).targetNames = <<>>
               \/ /\ Len(CurAction(c).targetNames) = 1
                  /\ CurAction(c).actorName = CurAction(c).targetNames[1]
            /\ extras = <<>>
      THEN [c EXCEPT !.turns[c.currentAction[1]].actions[c.currentAction[2]].verb =
                       @ \o <<","," ">> \o text]
    ELSE IF c.pendingAbilityBoost.set /\ extras = <<>>
      THEN [c EXCEPT !.pendingAbilityBoost.boosts =
                       Append(@, [ref |-> ref, stat |-> stat, amount |-> amount,
                                  direction |-> direction])]
    ELSE appendIconDetail(c, ref,
                          IF extras # <<>>
                            THEN text \o <<" ","(">> \o join(extras, <<";"," ">>) \o <<")">>
                            ELSE text,
                          FALSE)
    : text \in {direction \o NumToStr(amount) \o <<" ">> \o stat} })
    : ref \in {parsePokemonRef(Part(parts, 1)).ref},
      stat \in {toUpperCase(Part(parts, 2))},
      amount \in {Number(Part(parts, 3))},
      direction \in {IF Part(parts, 0) = <<"-","b","o","o","s","t">> THEN <<"+">> ELSE <<"-">>},
      extras \in {parseExtras(parts, 4)} })

caseBoost(c, parts) ==
  The({ The({
    IF c.pendingAbilityBoost.set /\ extras = <<>>
      THEN [c EXCEPT !.pendingAbilityBoost.boosts =
                       Append(@, [ref |-> ref, stat |-> stat, amount |-> amount,
                                  direction |-> direction])]
    ELSE IF /\ HasAction(c)
            /\ CurAction(c).type = "move"
            /\ CurAction(c).actorRef = ref
            /\ \/ CurAction(c).targetNames = <<>>
               \/ /\ Len(CurAction(c).targetNames) = 1
                  /\ CurAction(c).actorName = CurAction(c).targetNames[1]
            /\ extras = <<>>
      THEN [c EXCEPT !.turns[c.currentAction[1]].actions[c.currentAction[2]].verb =
                       @ \o <<","," ">> \o text]
    ELSE appendIconDetail(c, ref,
                          IF extras # <<>>
                            THEN text \o <<" ","(">> \o join(extras, <<";"," ">>) \o <<")">>
                            ELSE text,
                          FALSE)
    : text \in {direction \o NumToStr(amount) \o <<" ">> \o stat} })
    : ref \in {parsePokemonRef(Part(parts, 1)).ref},
      stat \in {toUpperCase(Part(parts, 2))},
      amount \in {Number(Part(parts, 3))},
      direction \in {IF Part(parts, 0) = <<"-","b","o","o","s","t">> THEN <<"+">> ELSE <<"-">>},
      extras \in {parseExtras(parts, 4)} })

caseStatus(c, parts) ==
  The({
    appendIconDetail(
      IF HasMon(c, ref) THEN [c EXCEPT !.pokemon[ref].status = status] ELSE c,
      ref, status \o formatExtras(extras),
      \E e \in RangeOf(extras) : isEndOfTurnSource(e))
    : ref \in {parsePokemonRef(Part(parts, 1)).ref},
      status \in {toUpperCase(Part(parts, 2))},
      extras \in {parseExtras(parts, 3)} })

caseCureStatus(c, parts) ==
  The({
    [appendIconDetail(c, ref, <<"C","u","r","e","d"," ">> \o toUpperCase(Part(parts, 2)), FALSE)
       EXCEPT !.pokemon[ref].status = Undef]
    : ref \in {parsePokemonRef(Part(parts, 1)).ref} })

\* `${pokemonName}'s`, or a bare apostrophe after a final s
Possessive(pokemonName) ==
  IF endsWith(pokemonName, <<"s">>) THEN pokemonName \o <<"'">> ELSE pokemonName \o <<"'","s">>

caseAbility(c, parts) ==
  The({
    IF Part(parts, 3) = <<"b","o","o","s","t">>
      THEN [finalizePendingAbilityBoost(c) EXCEPT
              !.pendingAbilityBoost =
                 [ref |-> ref, ability |-> Part(parts, 2), boosts |-> <<>>,
                  set |-> TRUE]]
      ELSE The({
             IF c.leadPhase
                \/ (StrictEqNum(CurTurn(c).turn, 1) /\ CurTurn(c).actions = <<>>)
               THEN pushHeaderEvent(c, detail)
               ELSE appendDetail(c, makeDetail(detail, NoHtml), FALSE)
             : detail \in {Possessive(Or(MonName(c, ref), ref)) \o <<" ">>
                           \o Str(Part(parts, 2))
                           \o (IF extras # <<>>
                                 THEN <<" ","(">> \o join(extras, <<";"," ">>) \o <<")">>
                                 ELSE <<>>)} })
    : ref \in {parsePokemonRef(Part(parts, 1)).ref},
      extras \in {parseExtras(parts, 3)} })

caseItem(c, parts) ==
  The({
    appendIconDetail(c, ref,
      (IF Part(parts, 0) = <<"-","i","t","e","m">> THEN <<"I","t","e","m"," ","g","a","i","n","e","d",":"," ">> ELSE <<"I","t","e","m"," ","l","o","s","t",":"," ">>)
      \o Str(Part(parts, 2)) \o formatExtras(parseExtras(parts, 3)),
      FALSE)
    : ref \in {parsePokemonRef(Part(parts, 1)).ref} })

\* the text after the first "ability:" of s (blanks skipped), trimmed
AfterMarker(s, marker) ==
  IF includes(s, marker) THEN trim(Drop(s, IndexOf(s, marker) + Len(marker)))
  ELSE <<>>

\* ability and ref of a start record "[from] ability: A" "[of] ref", when
\* both are present and non-empty
SourceAbility(parts) ==
  IF Truthy(Part(parts, 2)) /\ includes(Part(parts, 2), <<"[","f","r","o","m","]"," ","a","b","i","l","i","t","y",":">>)
    THEN AfterMarker(Part(parts, 2), <<"a","b","i","l","i","t","y",":">>)
    ELSE <<>>
SourceRefRaw(parts) ==
  IF SourceAbility(parts) # <<>> /\ Truthy(Part(parts, 3))
     /\ includes(Part(parts, 3), <<"[","o","f","]">>)
    THEN AfterMarker(Part(parts, 3), <<"[","o","f","]">>)
    ELSE <<>>

\* the line "X's Ability; Effect starts" of a start record with a source; it
\* joins the headline of the open switch of that ref, or is a header event
sourcedStart(c, refRaw, ability, effect) ==
  The({ The({
    IF HasAction(c) /\ CurAction(c).type = "switch" /\ CurAction(c).actorRef = ref
      THEN [c EXCEPT
              !.turns[c.currentAction[1]].actions[c.currentAction[2]].verb =
                 @ \o <<";"," ">> \o line]
      ELSE pushHeaderEvent(c, line)
    : line \in {Possessive(Or(MonName(c, ref), refRaw)) \o <<" ">> \o ability \o <<";"," ">>
                \o effect \o <<" ","s","t","a","r","t","s">>} })
    : ref \in {parsePokemonRef(refRaw).ref} })

\* variant: a start that a move of the turn implies is announced like any
\* other.
caseFieldStartAnnounced(c, parts) ==
  The({
    IF refRaw # <<>>
      THEN sourcedStart(c, refRaw, SourceAbility(parts), fieldName)
    ELSE pushHeaderEvent(c, fieldName \o <<" ","s","t","a","r","t","s">>)
    : fieldName \in {normalizeFieldName(Part(parts, 1))},
      refRaw \in {SourceRefRaw(parts)} })

caseFieldStart(c, parts) ==
  The({
    IF refRaw # <<>>
      THEN sourcedStart(c, refRaw, SourceAbility(parts), fieldName)
    ELSE IF \E i \in 1..Len(c.recentMoves) :
              toId(c.recentMoves[i].move) = toId(fieldName)
      THEN c
    ELSE pushHeaderEvent(c, fieldName \o <<" ","s","t","a","r","t","s">>)
    : fieldName \in {normalizeFieldName(Part(parts, 1))},
      refRaw \in {SourceRefRaw(parts)} })

\* variant: the end of the field effect is written at once, as a field-start
\* is, and nothing is buffered.
caseFieldEndEmitted(c, parts) ==
  pushHeaderEvent(c, normalizeFieldName(Part(parts, 1)) \o <<" ","e","n","d","s">>)

caseFieldEnd(c, parts) ==
  [c EXCEPT !.pendingFieldEnds = Append(@, normalizeFieldName(Part(parts, 1)))]

caseWeather(c, parts) ==
  The({
    IF weather = <<"n","o","n","e">>
      THEN [(IF Truthy(c.currentWeather)
               THEN pushHeaderEvent(c, normalizeWeatherName(c.currentWeather)
                                       \o <<" ","e","n","d","s">>)
               ELSE c)
            EXCEPT !.currentWeather = Undef]
    ELSE IF (Truthy(Part(parts, 2)) /\ includes(Part(parts, 2), <<"u","p","k","e","e","p">>))
            \/ weather = c.currentWeather
      THEN c
    ELSE IF refRaw # <<>>
      THEN [sourcedStart(c, refRaw, SourceAbility(parts), normalizeWeatherName(weather))
            EXCEPT !.currentWeather = weather]
    ELSE [pushHeaderEvent(c, normalizeWeatherName(weather) \o <<" ","s","t","a","r","t","s">>)
          EXCEPT !.currentWeather = weather]
    : weather \in {Part(parts, 1)},
      refRaw \in {SourceRefRaw(parts)} })

caseSideStart(c, parts) ==
  LET conditionId == toId(Part(parts, 2))
  IN  IF resolveSide(Part(parts, 1)) = P1
        THEN [c EXCEPT !.sideConditions.p1 = @ \cup {conditionId}]
        ELSE [c EXCEPT !.sideConditions.p2 = @ \cup {conditionId}]

\* variant: the condition that ends is announced and stays recorded as
\* active.
caseSideEndKept(c, parts) ==
  The({
    IF conditionId \notin (IF sideRef = P1 THEN c.sideConditions.p1
                           ELSE c.sideConditions.p2)
      THEN c
    ELSE pushHeaderEvent(c, line)
    : sideRef \in {resolveSide(Part(parts, 1))},
      conditionId \in {toId(Part(parts, 2))},
      line \in {<<"S","i","d","e"," ","c","o","n","d","i","t","i","o","n"," ","e","n","d","e","d",":"," ">> \o resolveSide(Part(parts, 1)) \o <<" ","-",">"," ">>
                \o Str(Part(parts, 2))} })

caseSideEnd(c, parts) ==
  The({
    IF conditionId \notin (IF sideRef = P1 THEN c.sideConditions.p1
                           ELSE c.sideConditions.p2)
      THEN c
    ELSE IF sideRef = P1
      THEN [pushHeaderEvent(c, line) EXCEPT !.sideConditions.p1 = @ \ {conditionId}]
      ELSE [pushHeaderEvent(c, line) EXCEPT !.sideConditions.p2 = @ \ {conditionId}]
    : sideRef \in {resolveSide(Part(parts, 1))},
      conditionId \in {toId(Part(parts, 2))},
      line \in {<<"S","i","d","e"," ","c","o","n","d","i","t","i","o","n"," ","e","n","d","e","d",":"," ">> \o resolveSide(Part(parts, 1)) \o <<" ","-",">"," ">>
                \o Str(Part(parts, 2))} })

caseTerrain(c, parts) == pushHeaderEvent(c, <<"T","e","r","r","a","i","n",":"," ">> \o Str(Part(parts, 1)))

\* /forfeited\.$/i.test(message)
IsForfeit(message) == endsWith(toLowerCase(message), <<"f","o","r","f","e","i","t","e","d",".">>)

caseMessage(c, parts) ==
  The({
    IF IsForfeit(message)
      THEN [c EXCEPT !.resultNote = <<"F","o","r","f","e","i","t">>,
                     !.loser = IF ~Truthy(c.loser)
                                 THEN TrimEnd(Take(message, Len(message) - 10))
                                 ELSE @]
    ELSE IF message # <<>> /\ ~includes(toLowerCase(message), <<"b","a","t","t","l","e"," ","t","i","m","e","r"," ","i","s"," ","o","n">>)
      THEN appendDetailString(c, message)
    ELSE c
    : message \in {join(Drop(parts, 1), <<" ">>)} })

\* toId(effect).includes('protect') || effect.toLowerCase().includes('protect')
IsProtect(effect) ==
  includes(toId(effect), <<"p","r","o","t","e","c","t">>) \/ includes(toLowerCase(effect), <<"p","r","o","t","e","c","t">>)

caseSingleTurn(c, parts) ==
  The({ The({
    IF /\ HasAction(p)
       /\ CurAction(p).type = "move"
       /\ toId(IF startsWith(toLowerCase(effect), <<"m","o","v","e",":">>)
                 THEN TrimStart(Drop(effect, 5)) ELSE effect)
          = toId(CurAction(p).verb)
      THEN p
      ELSE appendIconDetail(p, ref, effect, FALSE)
    : p \in {IF IsProtect(effect) THEN [c EXCEPT !.pendingProtects = @ \cup {ref}]
             ELSE c} })
    : ref \in {parsePokemonRef(Part(parts, 1)).ref},
      effect \in {Part(parts, 2)} })

\* variant: the suffix is added whether or not the name has it already.
patchTargetNameAgain(c, ref, marker) ==
  IF ~HasAction(c) \/ CurAction(c).targetRefs = <<>> THEN c
  ELSE The({
         IF targetIdx = 0 \/ targetIdx > Len(CurAction(c).targetNames) THEN c
         ELSE LET currentName == CurAction(c).targetNames[targetIdx]
              IN  IF ~Truthy(currentName) THEN c
                  ELSE [c EXCEPT
                          !.turns[c.currentAction[1]].actions[c.currentAction[2]]
                            .targetNames[targetIdx] = currentName \o <<" ">> \o marker]
         : targetIdx \in {ListIndexOf(CurAction(c).targetRefs, ref)} })

\* the open action with the display name of target ref given a suffix once
patchTargetName(c, ref, marker) ==
  IF ~HasAction(c) \/ CurAction(c).targetRefs = <<>> THEN c
  ELSE The({
         IF targetIdx = 0 \/ targetIdx > Len(CurAction(c).targetNames) THEN c
         ELSE LET currentName == CurAction(c).targetNames[targetIdx]
              IN  IF ~Truthy(currentName) \/ includes(currentName, marker) THEN c
                  ELSE [c EXCEPT
                          !.turns[c.currentAction[1]].actions[c.currentAction[2]]
                            .targetNames[targetIdx] = currentName \o <<" ">> \o marker]
         : targetIdx \in {ListIndexOf(CurAction(c).targetRefs, ref)} })

caseActivate(c, parts) ==
  The({
    IF IsProtect(Part(parts, 2)) THEN patchTargetName(c, ref, <<"(","P","r","o","t","e","c","t",")">>)
    ELSE appendIconDetail(c, ref,
           <<"A","c","t","i","v","a","t","e","s"," ">> \o Part(parts, 2) \o formatExtras(parseExtras(parts, 3)),
           FALSE)
    : ref \in {parsePokemonRef(Part(parts, 1)).ref} })

caseFail(c, parts) ==
  The({
    appendIconDetail(c, ref,
      IF reason # <<>> THEN <<"F","a","i","l","s"," ","(">> \o reason \o <<")">> ELSE <<"F","a","i","l","s">>, FALSE)
    : ref \in {parsePokemonRef(Part(parts, 1)).ref},
      reason \in {join(parseExtras(parts, 2), <<";"," ">>)} })

caseMiss(c, parts) ==
  The({
    appendIconDetail(c, ref,
      IF Truthy(targetName) THEN <<"M","i","s","s","e","s"," ">> \o targetName ELSE <<"M","i","s","s","e","s">>, FALSE)
    : ref \in {parsePokemonRef(Part(parts, 1)).ref},
      targetName \in {IF Truthy(Part(parts, 2))
                        THEN The({ Or(Or(ti.nickname, ti.ref), Part(parts, 2))
                                   : ti \in {parsePokemonRef(Part(parts, 2))} })
                        ELSE <<>>} })

caseImmune(c, parts) ==
  The({ patchTargetName(c, ref, <<"(","i","m","m","u","n","e",")">>)
        : ref \in {parsePokemonRef(Part(parts, 1)).ref} })

caseFaint(c, parts) ==
  The({
    IF HasMon(c, ref)
      THEN [c EXCEPT !.pokemon[ref].fainted = TRUE,
                     !.faintedThisTurn = @ \cup {ref}]
      ELSE c
    : ref \in {parsePokemonRef(Part(parts, 1)).ref} })

caseTerastallize(c, parts) ==
  LET ref == parsePokemonRef(Part(parts, 1)).ref
      name == Or(MonName(c, ref), Part(parts, 1))
  IN  pushHeaderEvent(c, <<"T","e","r","a","s","t","a","l","l","i","z","e"," ">> \o name \o <<" ", RightArrow, " ">>
                     \o Str(Part(parts, 2)))

\* variant: the forme change also gives the new icon to the actions that the
\* pokemon already has.
caseFormeChangeRepainting(c, parts) ==
  The({ The({
    [u EXCEPT !.turns =
       [t \in 1..Len(u.turns) |->
          [u.turns[t] EXCEPT !.actions =
             [a \in 1..Len(u.turns[t].actions) |->
                IF u.turns[t].actions[a].actorRef = ref
                  THEN [u.turns[t].actions[a] EXCEPT
                          !.actorIconId = u.pokemon[ref].iconId]
                  ELSE u.turns[t].actions[a]]]]]
    : u \in {updatePokemonSpecies(c, ref, Part(parts, 2))} })
    : ref \in {parsePokemonRef(Part(parts, 1)).ref} })

caseFormeChange(c, parts) ==
  The({ updatePokemonSpecies(c, ref, Part(parts, 2))
        : ref \in {parsePokemonRef(Part(parts, 1)).ref} })

(***************************************************************************)
(* The turn renderer and the summary assembler                             *)
(***************************************************************************)

\* html.replace(/\s+/g, " ") on a markup string
HtmlSquash(h) ==
  [i \in 1..Len(h) |-> [h[i] EXCEPT !.s = SquashSpaces(@)]]

\* the parts of the headline of a switch action after "switches"
SwitchExtraInfo(verb) ==
  The({
    IF Truthy(verb) /\ verb # <<"s","w","i","t","c","h","e","s">> /\ Len(parts) > 1
       /\ trim(parts[1]) = <<"s","w","i","t","c","h","e","s">>
      THEN <<";"," ">> \o join([i \in 2..Len(parts) |-> trim(parts[i])], <<";"," ">>)
      ELSE <<>>
    : parts \in {split(verb, ";")} })

\* the headline of a switch action
switchHeadline(action) ==
  The({
    IF startsWith(action.verb, <<"e","n","t","e","r","s">>)
      THEN [html |-> HtmlTrim(HCat(currentIcon, HtmlOf(action.verb))),
            text |-> trim(toText \o <<" ">> \o action.verb)]
      ELSE The({ The({
             [html |-> HCat(IF arrows # <<>> THEN arrows ELSE HtmlOf(<<"S","w","i","t","c","h">>),
                            HtmlOf(extraInfo)),
              text |-> (IF Truthy(fromText) /\ Truthy(toText)
                          THEN fromText \o <<" ","-",">"," ">> \o toText
                          ELSE Or(Or(toText, fromText), <<"S","w","i","t","c","h">>))
                       \o extraInfo]
             : arrows \in {HtmlTrim(
                             IF previousIcon # <<>> /\ currentIcon # <<>>
                               THEN HCat(previousIcon,
                                         HCat(HtmlOf(<<" ","-",">"," ">>), currentIcon))
                             ELSE IF currentIcon # <<>> THEN currentIcon
                             ELSE previousIcon)} })
             : previousIcon \in {IF Truthy(action.fromIconId)
                                   THEN iconHTML(action.fromIconId,
                                                 Or(action.fromName, <<"P","r","e","v","i","o","u","s">>))
                                   ELSE <<>>},
               extraInfo \in {SwitchExtraInfo(action.verb)},
               fromText \in {Or(action.fromName,
                                IF Truthy(action.fromIconId) THEN <<"P","r","e","v">> ELSE <<>>)} })
    : toText \in {Or(action.actorName, <<>>)},
      currentIcon \in {IF Truthy(action.actorIconId)
                         THEN iconHTML(action.actorIconId, Or(action.actorName, <<>>))
                         ELSE <<>>} })

\* the headline of a move or note action
moveHeadline(action) ==
  The({ The({
    [html |-> HtmlSquash(HtmlJoin(
                <<IF actorIcon # <<>> THEN actorIcon ELSE HtmlOf(actorName)>>
                \o <<HtmlOf(action.verb)>>
                \o (IF targetIconHtml # <<>>
                      THEN <<HCat(HtmlOf(<<"-",">"," ">>), targetIconHtml)>>
                    ELSE IF targetText # <<>>
                      THEN <<HtmlOf(<<"-",">"," ">> \o targetText)>>
                    ELSE <<>>),
                <<" ">>)),
     text |-> SquashSpaces(join(
                <<trim(actorName \o <<" ">> \o action.verb)>>
                \o (IF targetText # <<>> THEN <<<<"-",">"," ">> \o targetText>> ELSE <<>>),
                <<" ">>))]
    : actorIcon \in {IF Truthy(action.actorIconId)
                       THEN iconHTML(action.actorIconId, actorName) ELSE <<>>},
      targetText \in {join(targetDisplayNames, <<","," ">>)},
      targetIconHtml \in {
        IF action.targetSpecies # <<>> /\ ~isSelfTarget
          THEN HtmlJoin(
                 [i \in 1..Len(action.targetSpecies) |->
                    iconHTML(Or(toIconId(action.targetSpecies[i]), DEFAULT_ICON_ID),
                             Or(Or(IF i <= Len(targetDisplayNames)
                                     THEN targetDisplayNames[i] ELSE Undef,
                                   IF i <= Len(action.targetNames)
                                     THEN action.targetNames[i] ELSE Undef),
                                action.targetSpecies[i]))],
                 <<" ">>)
          ELSE <<>>} })
    : actorName \in {Or(action.actorName, <<"?">>)},
      isSelfTarget \in {\/ action.targetRefs = <<>>
                        \/ (Len(action.targetRefs) = 1
                            /\ action.actorRef = action.targetRefs[1])},
      targetDisplayNames \in {
        IF ~(\/ action.targetRefs = <<>>
             \/ (Len(action.targetRefs) = 1 /\ action.actorRef = action.targetRefs[1]))
          THEN action.targetNames ELSE <<>>} })

actionHeadline(action) ==
  IF action.type = "switch" THEN switchHeadline(action) ELSE moveHeadline(action)

\* the action is a move with exactly one target name and no "spread" verb
\* variant: a move counts as single-target only when all its details are
\* boost texts.
isSingleTargetAllBoosts(action) ==
  /\ action.type = "move"
  /\ Len(action.targetNames) = 1
  /\ ~includes(action.verb, <<"s","p","r","e","a","d">>)
  /\ \A i \in 1..Len(action.details) : IsBoostText(trim(action.details[i].text))

isSingleTarget(action) ==
  /\ action.type = "move"
  /\ Len(action.targetNames) = 1
  /\ ~includes(action.verb, <<"s","p","r","e","a","d">>)

\* name, read as the regular expression it is spliced into, matches s at
\* 1-based position i: "(" and ")" only group, "." is any character
RECURSIVE NameMatchEnd(_, _, _)
NameMatchEnd(name, s, i) ==
  IF name = <<>> THEN i
  ELSE IF name[1] \in {"(", ")"} THEN NameMatchEnd(Tail(name), s, i)
  ELSE IF i <= Len(s) /\ (name[1] = "." \/ name[1] = s[i])
    THEN NameMatchEnd(Tail(name), s, i + 1)
  ELSE 0

\* the position after name and the blanks after it, when name and at least one
\* blank stand at position j of s; 0 otherwise
NameEndAt(s, name, j) ==
  The({ IF e # 0 /\ SkipSpaces(s, e) > e THEN SkipSpaces(s, e) ELSE 0
        : e \in {NameMatchEnd(name, s, j)} })

\* the position after a match of (^|[,;]\s*)name\s+ that starts at position j
\* of s; 0 when none starts there
NameMatchAt(s, name, j) ==
  The({ IF atStart # 0 THEN atStart
        ELSE IF s[j] \in {",", ";"} THEN NameEndAt(s, name, SkipSpaces(s, j + 1))
        ELSE 0
        : atStart \in {IF j = 1 THEN NameEndAt(s, name, 1) ELSE 0} })

\* the first position from i on where a match starts; 0 when there is none
FirstNameMatch(s, name, i) ==
  The({ IF starts = {} THEN 0
        ELSE CHOOSE j \in starts : \A k \in starts : j <= k
        : starts \in {{j \in i..Len(s) : NameMatchAt(s, name, j) # 0}} })

\* the group $1 of the match that starts at j: nothing at the start of s, the
\* separator and the blanks after it otherwise
NameMatchKept(s, name, j) ==
  IF j = 1 /\ NameEndAt(s, name, 1) # 0 THEN <<>>
  ELSE SubSeq(s, j, SkipSpaces(s, j + 1) - 1)

\* s.replace(new RegExp(`(^|[,;]\\s*)${name}\\s+`, 'g'), '$1') from position i
RECURSIVE StripName(_, _, _)
StripName(s, name, i) ==
  IF i > Len(s) THEN <<>>
  ELSE The({ IF j = 0 THEN SubSeq(s, i, Len(s))
             ELSE SubSeq(s, i, j - 1) \o NameMatchKept(s, name, j)
                  \o The({ StripName(s, name, e) : e \in {NameMatchAt(s, name, j)} })
             : j \in {FirstNameMatch(s, name, i)} })

\* html.replace(new RegExp(iconPattern, 'g'), ""): the icons of one identifier
RECURSIVE StripIcons(_, _)
StripIcons(h, iconId) ==
  IF h = <<>> THEN <<>>
  ELSE IF h[1].k = "i" /\ h[1].id = iconId THEN StripIcons(Tail(h), iconId)
  ELSE HCat(<<h[1]>>, StripIcons(Tail(h), iconId))

\* the details of a single-target move, all of them boost texts, joined by ", "
boostOnlyDetails(details) ==
  [null |-> FALSE,
   text |-> join(SelectSeq([i \in 1..Len(details) |-> details[i].text], IsTruthyStr),
                 <<","," ">>),
   html |-> HtmlJoin(SelectSeq([i \in 1..Len(details) |->
                                  IF details[i].html # <<>> THEN details[i].html
                                  ELSE HtmlOf(details[i].text)],
                               LAMBDA h : h # <<>>),
                     <<","," ">>)]

\* the combined details of one action line, null when there is nothing
actionDetails(action) ==
  The({ The({
    IF ~combined.null /\ single
      THEN [null |-> FALSE,
            html |-> IF targetIconId # <<>>
                       THEN HtmlTrim(StripIcons(combined.html, targetIconId))
                       ELSE combined.html,
            text |-> IF Or(action.targetNames[1], <<>>) # <<>>
                       THEN trim(StripName(combined.text, action.targetNames[1], 1))
                       ELSE combined.text]
      ELSE combined
    : combined \in {IF single /\ \A i \in 1..Len(action.details) :
                                   IsBoostText(trim(action.details[i].text))
                      THEN boostOnlyDetails(action.details)
                      ELSE combineDetails(action.details)},
      targetIconId \in {IF action.targetSpecies # <<>>
                           /\ Truthy(action.targetSpecies[1])
                          THEN toIconId(action.targetSpecies[1]) ELSE <<>>} })
    : single \in {isSingleTarget(action) /\ action.details # <<>>} })

actionLine(action) ==
  The({
    [html |-> IF combined.null THEN headline.html
              ELSE HCat(headline.html, HCat(HtmlOf(separator), combined.html)),
     text |-> IF combined.null THEN headline.text
              ELSE headline.text \o separator \o combined.text]
    : headline \in {actionHeadline(action)},
      separator \in {IF action.details # <<>> /\ isSingleTarget(action)
                       THEN <<","," ">> ELSE <<" ", EmDash, " ">>},
      combined \in {actionDetails(action)} })

Div(h) == HCat(HtmlOf(<<"<","d","i","v",">">>), HCat(h, HtmlOf(<<"<","/","d","i","v",">">>)))
Nbsp2 == <<"&","n","b","s","p",";","&","n","b","s","p",";">>

IsTera(e) == startsWith(e, <<"T","e","r","a","s","t","a","l","l","i","z","e">>)
IsNotTera(e) == ~startsWith(e, <<"T","e","r","a","s","t","a","l","l","i","z","e">>)

\* the header line of a turn block: label, lead entries (turn 0), header events
turnHead(turn, turnLabel, headerSuffix) ==
  The({ The({
    [html |-> IF turn.turn = 0
                THEN Div(HCat(strong,
                              HCat(IF p1Html # <<>> \/ p2Html # <<>>
                                     THEN HCat(HtmlOf(<<" ">>),
                                               HCat(p1Html,
                                                    IF p2Html # <<>>
                                                      THEN HCat(HtmlOf(<<"&","n","b","s","p",";","v","s","&","n","b","s","p",";">>),
                                                                p2Html)
                                                      ELSE <<>>))
                                     ELSE <<>>,
                                   HtmlOf(headerSuffix))))
                ELSE Div(HCat(strong, HtmlOf(headerSuffix))),
     text |-> IF turn.turn = 0
                THEN trim(turnLabel
                          \o (IF textParts # <<>>
                                THEN <<" ">> \o join(textParts, <<" ","v","s"," ">>) ELSE <<>>)
                          \o headerSuffix)
                ELSE trim(turnLabel \o headerSuffix)]
    : p1Html \in {HtmlJoin([i \in 1..Len(p1Entries) |-> p1Entries[i].html], <<>>)},
      p2Html \in {HtmlJoin([i \in 1..Len(p2Entries) |-> p2Entries[i].html], <<>>)},
      textParts \in {
        The({ (IF p1Text # <<>> THEN <<p1Text>> ELSE <<>>)
              \o (IF p2Text # <<>> THEN <<p2Text>> ELSE <<>>)
              : p1Text \in {join([i \in 1..Len(p1Entries) |-> p1Entries[i].text],
                                 <<","," ">>)},
                p2Text \in {join([i \in 1..Len(p2Entries) |-> p2Entries[i].text],
                                 <<","," ">>)} })} })
    : p1Entries \in {SelectSeq(turn.leadEntries, LAMBDA e : e.side = P1)},
      p2Entries \in {SelectSeq(turn.leadEntries, LAMBDA e : e.side = P2)},
      strong \in {HtmlOf(<<"<","s","t","r","o","n","g",">">> \o turnLabel \o <<"<","/","s","t","r","o","n","g",">">>)} })

formatTurn(turn) ==
  The({ The({
    [html |-> <<head.html>>
              \o [i \in 1..Len(teraEvents) |-> Div(HtmlOf(Nbsp2 \o teraEvents[i]))]
              \o [i \in 1..Len(lines) |-> Div(HCat(HtmlOf(Nbsp2), lines[i].html))]
              \o (IF turn.endEvents # <<>> /\ ~ends.null
                    THEN <<Div(HCat(HtmlOf(Nbsp2 \o Nbsp2), ends.html))>> ELSE <<>>),
     text |-> <<head.text>>
              \o [i \in 1..Len(teraEvents) |-> <<" "," ">> \o teraEvents[i]]
              \o [i \in 1..Len(lines) |-> <<" "," ">> \o lines[i].text]
              \o (IF turn.endEvents # <<>> /\ ~ends.null
                    THEN <<<<" "," "," "," ">> \o ends.text>> ELSE <<>>)]
    : head \in {turnHead(turn,
                         IF turn.turn = 0 THEN Or(turn.label, <<"L","e","a","d">>)
                         ELSE <<"T">> \o NumToStr(turn.turn),
                         IF otherEvents # <<>>
                           THEN <<" ">> \o join(otherEvents, <<";"," ">>) ELSE <<>>)} })
    : teraEvents \in {SelectSeq(turn.headerEvents, IsTera)},
      otherEvents \in {SelectSeq(turn.headerEvents, IsNotTera)},
      lines \in {[i \in 1..Len(turn.actions) |-> actionLine(turn.actions[i])]},
      ends \in {combineDetails(turn.endEvents)} })

\* resolveLoser without the inference from the winner: the loser the log states.
statedLoser(c) == IF Truthy(c.loser) THEN c.loser ELSE Undef

resolveLoser(c) ==
  IF ~Truthy(c.loser) /\ ~Truthy(c.winner) THEN Undef
  ELSE LET p1Id == toId(c.players.p1)
           p2Id == toId(c.players.p2)
           loserId == IF Truthy(c.loser) THEN toId(c.loser) ELSE Undef
       IN  IF ~Truthy(loserId) /\ Truthy(c.winner)
             THEN IF toId(c.winner) = p1Id THEN c.players.p2 ELSE c.players.p1
           ELSE IF loserId = p1Id THEN c.players.p1
           ELSE IF loserId = p2Id THEN c.players.p2
           ELSE c.loser

\* the "[W] " / "[L] " tag of a player in the match header
playerTag(c, side) ==
  The({ The({
    IF winnerId = myId THEN <<"[","W","]"," ">>
    ELSE IF (IF ~Truthy(loserId) /\ Truthy(winnerId)
               THEN (IF winnerId = p1Id THEN p2Id ELSE p1Id)
               ELSE loserId) = myId
      THEN <<"[","L","]"," ">>
    ELSE <<>>
    : myId \in {IF side = P1 THEN p1Id ELSE p2Id} })
    : p1Id \in {toId(c.players.p1)},
      p2Id \in {toId(c.players.p2)},
      winnerId \in {IF Truthy(c.winner) THEN toId(c.winner) ELSE Undef},
      loserId \in {IF Truthy(c.loser) THEN toId(c.loser) ELSE Undef} })

teamLine(c, side) ==
  LET names == Team(c, side)
  IN  [html |-> HtmlJoin([i \in 1..Len(names) |->
                            iconHTML(Or(toIconId(names[i]), DEFAULT_ICON_ID), names[i])],
                         <<>>),
       text |-> join(names, <<" ", MiddleDot, " ">>)]

\* ctx.turns.find(t => t.turn === 0): the index of the first turn numbered 0
LeadTurnIndex(c) ==
  IF \E i \in 1..Len(c.turns) : c.turns[i].turn = 0
    THEN CHOOSE i \in 1..Len(c.turns) :
           c.turns[i].turn = 0 /\ \A j \in 1..(i - 1) : c.turns[j].turn # 0
    ELSE 0

\* A renderer that gives every turn not numbered 0 a block, empty or not.
isNumberedTurn(turn) == turn.turn # 0

\* a turn of the list gets a block: it is not numbered 0 and it has an
\* action, a header line or a lead entry
isRenderedTurn(turn) ==
  /\ turn.turn # 0
  /\ ~(turn.actions = <<>> /\ turn.headerEvents = <<>> /\ turn.leadEntries = <<>>)

\* variant: the head of a block goes to the text only
turnBlocksTextHead(c) ==
  The({ [i \in 1..Len(kept) |->
           The({ [html |-> Tail(b.html), text |-> b.text]
                 : b \in {formatTurn(kept[i])} })]
        : kept \in {SelectSeq(c.turns, isRenderedTurn)} })

\* the blocks of the loop over ctx.turns, one formatTurn result per block
turnBlocks(c) ==
  The({ [i \in 1..Len(kept) |-> formatTurn(kept[i])]
        : kept \in {SelectSeq(c.turns, isRenderedTurn)} })

RECURSIVE FlattenHtml(_)
FlattenHtml(blocks) ==
  IF blocks = <<>> THEN <<>> ELSE blocks[1].html \o FlattenHtml(Tail(blocks))
RECURSIVE FlattenText(_)
FlattenText(blocks) ==
  IF blocks = <<>> THEN <<>> ELSE blocks[1].text \o FlattenText(Tail(blocks))

\* the match header line
matchHeader(c) ==
  The({
    [html |-> Div(HtmlOf(<<"<","s","t","r","o","n","g",">">> \o p1Tag \o c.players.p1
                         \o <<"<","/","s","t","r","o","n","g",">"," ","v","s"," ","<","s","t","r","o","n","g",">">>
                         \o p2Tag \o c.players.p2 \o <<"<","/","s","t","r","o","n","g",">">> \o fmt \o note)),
     text |-> p1Tag \o c.players.p1 \o <<" ","v","s"," ">> \o p2Tag \o c.players.p2 \o fmt \o note]
    : p1Tag \in {playerTag(c, P1)},
      p2Tag \in {playerTag(c, P2)},
      note \in {IF Truthy(c.resultNote) THEN <<" ","(">> \o c.resultNote \o <<")">> ELSE <<>>},
      fmt \in {IF Truthy(c.formatName)
                 THEN <<" ", EmDash, " ">> \o c.formatName ELSE <<>>} })

\* the leads line: the lead entries of the first turn numbered 0, by side
leadsLine(c) ==
  The({ The({ The({
    [shown |-> hasLead /\ (p1LeadsHtml # <<>> \/ p2LeadsHtml # <<>>),
     html |-> Div(HCat(p1LeadsHtml,
                       HCat(HtmlOf(Nbsp2 \o <<"v","s">> \o Nbsp2), p2LeadsHtml))),
     text |-> join([i \in 1..Len(p1Leads) |-> p1Leads[i].text], <<","," ">>)
              \o <<" ","v","s"," ">>
              \o join([i \in 1..Len(p2Leads) |-> p2Leads[i].text], <<","," ">>),
     events |-> IF hasLead THEN c.turns[li].headerEvents ELSE <<>>]
    : p1LeadsHtml \in {HtmlJoin([i \in 1..Len(p1Leads) |-> p1Leads[i].html], <<>>)},
      p2LeadsHtml \in {HtmlJoin([i \in 1..Len(p2Leads) |-> p2Leads[i].html], <<>>)} })
    : hasLead \in {li # 0 /\ c.turns[li].leadEntries # <<>>},
      p1Leads \in {IF li = 0 THEN <<>>
                   ELSE SelectSeq(c.turns[li].leadEntries, LAMBDA e : e.side = P1)},
      p2Leads \in {IF li = 0 THEN <<>>
                   ELSE SelectSeq(c.turns[li].leadEntries, LAMBDA e : e.side = P2)} })
    : li \in {LeadTurnIndex(c)} })

\* renderSummary, as the lists htmlParts and textParts before the final join
renderSummary(c) ==
  The({
    [html |-> <<header.html>>
              \o (IF p1Team.html # <<>> \/ p2Team.html # <<>>
                    THEN <<Div(HCat(p1Team.html,
                                    HCat(HtmlOf(Nbsp2 \o <<"v","s">> \o Nbsp2),
                                         p2Team.html)))>>
                    ELSE <<>>)
              \o (IF leads.shown THEN <<leads.html>> ELSE <<>>)
              \o [i \in 1..Len(leads.events) |-> Div(HtmlOf(leads.events[i]))]
              \o FlattenHtml(blocks),
     text |-> <<header.text>>
              \o (IF p1Team.html # <<>> \/ p2Team.html # <<>>
                    THEN <<p1Team.text \o <<" ","v","s"," ">> \o p2Team.text>> ELSE <<>>)
              \o (IF leads.shown THEN <<leads.text>> ELSE <<>>)
              \o leads.events
              \o FlattenText(blocks)
              \o (IF Truthy(c.winner) THEN <<c.winner \o <<" ","W","i","n","s">>>> ELSE <<>>)]
    : header \in {matchHeader(c)},
      p1Team \in {teamLine(c, P1)},
      p2Team \in {teamLine(c, P2)},
      leads \in {leadsLine(c)},
      blocks \in {turnBlocks(c)} })

\* the SummarizedReplay of parseReplayData, for the identifier id
summarized(c, id) ==
  The({
    [done |-> TRUE,
     html |-> rendered.html,
     text |-> rendered.text,
     meta |-> [id |-> id, format |-> c.formatName, players |-> c.players,
               winner |-> c.winner, loser |-> resolveLoser(c),
               resultNote |-> c.resultNote]]
    : rendered \in {renderSummary(c)} })

(***************************************************************************)
(* parseLog: the loop over the lines of the log                            *)
(***************************************************************************)

\* rawLine.startsWith("|") ? rawLine.slice(1) : rawLine
StripBar(rawLine) == IF startsWith(rawLine, <<"|">>) THEN Tail(rawLine) ELSE rawLine
\* the fields of a line; a line that is empty after StripBar is skipped
Parts(rawLine) == split(StripBar(rawLine), "|")
IsSkipped(rawLine) == StripBar(rawLine) = <<>>
TagOf(rawLine) == Parts(rawLine)[1]

SwitchTags == {<<"s","w","i","t","c","h">>, <<"d","r","a","g">>, <<"r","e","p","l","a","c","e">>}
FormatTags == {<<"g","e","n">>, <<"t","i","e","r">>, <<"f","o","r","m","a","t">>}
DamageTags == {<<"-","d","a","m","a","g","e">>, <<"-","h","e","a","l">>}
BoostTags == {<<"-","b","o","o","s","t">>, <<"-","u","n","b","o","o","s","t">>}
ItemTags == {<<"-","i","t","e","m">>, <<"-","e","n","d","i","t","e","m">>}
FormeTags == {<<"d","e","t","a","i","l","s","c","h","a","n","g","e">>, <<"f","o","r","m","e","c","h","a","n","g","e">>}
\* the tags that have a case in parseLog
RecognizedTags ==
  SwitchTags \cup FormatTags \cup DamageTags \cup BoostTags \cup ItemTags
  \cup FormeTags
  \cup {<<"p","l","a","y","e","r">>, <<"w","i","n">>, <<"l">>, <<"t","u","r","n">>, <<"p","o","k","e">>, <<"m","o","v","e">>, <<"c","a","n","t">>,
        <<"-","s","t","a","t","u","s">>, <<"-","c","u","r","e","s","t","a","t","u","s">>, <<"-","a","b","i","l","i","t","y">>, <<"-","f","i","e","l","d","s","t","a","r","t">>, <<"-","f","i","e","l","d","e","n","d">>,
        <<"-","w","e","a","t","h","e","r">>, <<"-","s","i","d","e","s","t","a","r","t">>, <<"-","s","i","d","e","e","n","d">>, <<"-","t","e","r","r","a","i","n">>, <<"-","m","e","s","s","a","g","e">>,
        <<"-","s","i","n","g","l","e","t","u","r","n">>, <<"-","a","c","t","i","v","a","t","e">>, <<"-","f","a","i","l">>, <<"-","m","i","s","s">>, <<"-","i","m","m","u","n","e">>,
        <<"f","a","i","n","t">>, <<"-","t","e","r","a","s","t","a","l","l","i","z","e">>}

\* The record makes its case throw a TypeError: a method is called on an
\* absent field (undefined.match, undefined.split, undefined.toUpperCase,
\* undefined.trim, undefined.replace, undefined.toLowerCase,
\* undefined.startsWith), or addSpecies pushes to the roster of a side that
\* is neither p1 nor p2.
Raises(c, parts) ==
  LET tag == parts[1]
      no(i) == Part(parts, i) = Undef
  IN  CASE tag = <<"p","o","k","e">> ->
             \/ no(2)
             \/ LET normalized == trim(split(Part(parts, 2), ",")[1])
                IN  /\ Part(parts, 1) \notin Sides
                    /\ toId(normalized) # <<>>
                    /\ normalized \notin c.teams.p2Set
        [] tag \in SwitchTags -> no(1)
        [] tag = <<"m","o","v","e">> -> no(1) \/ no(2)
        [] tag = <<"c","a","n","t">> -> no(1)
        [] tag \in DamageTags -> no(1) \/ no(2)
        [] tag \in BoostTags -> no(1) \/ no(2)
        [] tag \in {<<"-","s","t","a","t","u","s">>, <<"-","c","u","r","e","s","t","a","t","u","s">>} -> no(1) \/ no(2)
        [] tag = <<"-","a","b","i","l","i","t","y">> -> no(1)
        [] tag \in ItemTags -> no(1)
        [] tag \in {<<"-","f","i","e","l","d","s","t","a","r","t">>, <<"-","f","i","e","l","d","e","n","d">>, <<"-","w","e","a","t","h","e","r">>} -> no(1)
        [] tag \in {<<"-","s","i","d","e","s","t","a","r","t">>, <<"-","s","i","d","e","e","n","d">>} -> no(1)
        [] tag \in {<<"-","s","i","n","g","l","e","t","u","r","n">>, <<"-","a","c","t","i","v","a","t","e">>} -> no(1) \/ no(2)
        [] tag \in {<<"-","f","a","i","l">>, <<"-","m","i","s","s">>, <<"-","i","m","m","u","n","e">>, <<"f","a","i","n","t">>, <<"-","t","e","r","a","s","t","a","l","l","i","z","e">>} ->
             no(1)
        [] tag \in FormeTags -> no(1) \/ no(2)
        [] OTHER -> FALSE

(***************************************************************************)
(* The state: the run of parseReplayData in progress, and the calls made    *)
(***************************************************************************)
VARIABLES
  ctx,     \* the ParseContext
  log,     \* the lines of data.log that parseLog has taken so far
  status,  \* "parsing", "aborted" (an error was thrown), "done" (rendered);
           \* "idle" before the first call, "failed" when the call threw on
           \* its argument
  out,     \* the SummarizedReplay, once status is "done"
  calls,   \* the calls whose argument is given whole (EntrySpec): the data
           \* of each and, once the next call is made, its outcome
  util     \* the last call of a function of utils.ts made on its own
           \* (UtilSpec): the function, its argument and what it returned

vars == <<ctx, log, status, out, calls, util>>

NoOutput == [done |-> FALSE]
NoCall == [fn |-> "none", arg |-> Undef, ret |-> Undef]

\* variant: the context of the call before is used again
contextKept(players, format) ==
  [(IF ctx.turns = <<>> THEN createInitialContext ELSE ctx) EXCEPT
     !.players = [p1 |-> Or(Part(players, 0), <<"P","l","a","y","e","r"," ","1">>),
                  p2 |-> Or(Part(players, 1), <<"P","l","a","y","e","r"," ","2">>)],
     !.formatName = format]

\* the context parseReplayData hands to parseLog for data.players and
\* data.format
contextFor(players, format) ==
  [createInitialContext EXCEPT
     !.players = [p1 |-> Or(Part(players, 0), <<"P","l","a","y","e","r"," ","1">>),
                  p2 |-> Or(Part(players, 1), <<"P","l","a","y","e","r"," ","2">>)],
     !.formatName = format]

\* parseLog takes the line l, with the fields parts; after is the context its
\* case leaves.  A TypeError thrown by the case ends the run.
Feed(l, parts, after) ==
  /\ status = "parsing"
  /\ log' = Append(log, l)
  /\ out' = out
  /\ UNCHANGED <<calls, util>>
  /\ IF Raises(ctx, parts)
       THEN ctx' = ctx /\ status' = "aborted"
       ELSE ctx' = after /\ status' = status

\* One iteration of the loop of parseLog on the line l, whose tag is in tags:
\* the switch on the tag runs Handler.
Case(l, tags, Handler(_, _)) ==
  /\ ~IsSkipped(l)
  /\ \E parts \in {Parts(l)} :
       /\ parts[1] \in tags
       /\ Feed(l, parts, Handler(ctx, parts))

\* The actions: one per case of the switch, on a line of Ls, while the log is
\* shorter than n.
Player(Ls, n) == Len(log) < n /\ \E l \in Ls : Case(l, {<<"p","l","a","y","e","r">>}, casePlayer)
Format(Ls, n) == Len(log) < n /\ \E l \in Ls : Case(l, FormatTags, caseFormat)
Win(Ls, n) == Len(log) < n /\ \E l \in Ls : Case(l, {<<"w","i","n">>}, caseWin)
Loss(Ls, n) == Len(log) < n /\ \E l \in Ls : Case(l, {<<"l">>}, caseL)
Turn(Ls, n) == Len(log) < n /\ \E l \in Ls : Case(l, {<<"t","u","r","n">>}, caseTurn)
Poke(Ls, n) == Len(log) < n /\ \E l \in Ls : Case(l, {<<"p","o","k","e">>}, casePoke)
Switch(Ls, n) == Len(log) < n /\ \E l \in Ls : Case(l, SwitchTags, caseSwitch)
Move(Ls, n) == Len(log) < n /\ \E l \in Ls : Case(l, {<<"m","o","v","e">>}, caseMove)
Cant(Ls, n) == Len(log) < n /\ \E l \in Ls : Case(l, {<<"c","a","n","t">>}, caseCant)
Damage(Ls, n) == Len(log) < n /\ \E l \in Ls : Case(l, DamageTags, caseDamage)
Boost(Ls, n) == Len(log) < n /\ \E l \in Ls : Case(l, BoostTags, caseBoost)
Status(Ls, n) == Len(log) < n /\ \E l \in Ls : Case(l, {<<"-","s","t","a","t","u","s">>}, caseStatus)
CureStatus(Ls, n) == Len(log) < n /\ \E l \in Ls : Case(l, {<<"-","c","u","r","e","s","t","a","t","u","s">>}, caseCureStatus)
Ability(Ls, n) == Len(log) < n /\ \E l \in Ls : Case(l, {<<"-","a","b","i","l","i","t","y">>}, caseAbility)
Item(Ls, n) == Len(log) < n /\ \E l \in Ls : Case(l, ItemTags, caseItem)
FieldStart(Ls, n) == Len(log) < n /\ \E l \in Ls : Case(l, {<<"-","f","i","e","l","d","s","t","a","r","t">>}, caseFieldStart)
FieldEnd(Ls, n) == Len(log) < n /\ \E l \in Ls : Case(l, {<<"-","f","i","e","l","d","e","n","d">>}, caseFieldEnd)
Weather(Ls, n) == Len(log) < n /\ \E l \in Ls : Case(l, {<<"-","w","e","a","t","h","e","r">>}, caseWeather)
SideStart(Ls, n) == Len(log) < n /\ \E l \in Ls : Case(l, {<<"-","s","i","d","e","s","t","a","r","t">>}, caseSideStart)
SideEnd(Ls, n) == Len(log) < n /\ \E l \in Ls : Case(l, {<<"-","s","i","d","e","e","n","d">>}, caseSideEnd)
Terrain(Ls, n) == Len(log) < n /\ \E l \in Ls : Case(l, {<<"-","t","e","r","r","a","i","n">>}, caseTerrain)
Message(Ls, n) == Len(log) < n /\ \E l \in Ls : Case(l, {<<"-","m","e","s","s","a","g","e">>}, caseMessage)
SingleTurn(Ls, n) == Len(log) < n /\ \E l \in Ls : Case(l, {<<"-","s","i","n","g","l","e","t","u","r","n">>}, caseSingleTurn)
Activate(Ls, n) == Len(log) < n /\ \E l \in Ls : Case(l, {<<"-","a","c","t","i","v","a","t","e">>}, caseActivate)
Fail(Ls, n) == Len(log) < n /\ \E l \in Ls : Case(l, {<<"-","f","a","i","l">>}, caseFail)
Miss(Ls, n) == Len(log) < n /\ \E l \in Ls : Case(l, {<<"-","m","i","s","s">>}, caseMiss)
Immune(Ls, n) == Len(log) < n /\ \E l \in Ls : Case(l, {<<"-","i","m","m","u","n","e">>}, caseImmune)
Faint(Ls, n) == Len(log) < n /\ \E l \in Ls : Case(l, {<<"f","a","i","n","t">>}, caseFaint)
Terastallize(Ls, n) == Len(log) < n /\ \E l \in Ls : Case(l, {<<"-","t","e","r","a","s","t","a","l","l","i","z","e">>}, caseTerastallize)
Forme(Ls, n) == Len(log) < n /\ \E l \in Ls : Case(l, FormeTags, caseFormeChange)

\* variant: a line without a case closes the open action
OtherClosingAction(Ls, n) ==
  /\ Len(log) < n
  /\ status = "parsing"
  /\ \E l \in Ls :
       /\ IsSkipped(l) \/ Parts(l)[1] \notin RecognizedTags
       /\ log' = Append(log, l)
  /\ ctx' = [ctx EXCEPT !.currentAction = NoAction]
  /\ UNCHANGED <<status, out, calls, util>>

\* a line that is skipped (empty after its bar) or whose tag has no case
Other(Ls, n) ==
  /\ Len(log) < n
  /\ status = "parsing"
  /\ \E l \in Ls :
       /\ IsSkipped(l) \/ Parts(l)[1] \notin RecognizedTags
       /\ log' = Append(log, l)
  /\ UNCHANGED <<ctx, status, out, calls, util>>

\* the identifier of the data of the call in progress
CallId == IF calls = <<>> THEN Undef ELSE calls[Len(calls)].data.id

\* the log has ended: renderSummary and the metadata.  A log that passed
\* the validation has at least one line.
Render ==
  /\ status = "parsing"
  /\ log # <<>>
  /\ status' = "done"
  /\ out' = summarized(ctx, CallId)
  /\ UNCHANGED <<ctx, log, calls, util>>

Init ==
  /\ ctx = contextFor(<<<<"A","s","h">>, <<"M","i","s","t","y">>>>, Undef)
  /\ log = <<>>
  /\ status = "parsing"
  /\ out = NoOutput
  /\ calls = <<>>
  /\ util = NoCall

(***************************************************************************)
(* Spec: every case of parseLog, on a log of at most MaxLines lines        *)
(***************************************************************************)
MaxLines == 2

Lines ==
  {<<"|","p","l","a","y","e","r","|","p","1","|","A","s","h","|">>, <<"|","p","l","a","y","e","r","|","p","2","|","M","i","s","t","y">>,
   <<"|","t","i","e","r","|","[","G","e","n"," ","9","]"," ","O","U">>,
   <<"|","w","i","n","|","A","s","h">>,
   <<"|","l","|","M","i","s","t","y">>,
   <<"|","t","u","r","n","|","1">>, <<"|","t","u","r","n","|","2">>,
   <<"|","p","o","k","e","|","p","1","|","P","i","k","a","c","h","u",","," ","L","5","0","|">>, <<"|","p","o","k","e","|","p","2","|","S","q","u","i","r","t","l","e",","," ","L","5","0">>,
   <<"|","s","w","i","t","c","h","|","p","1","a",":"," ","R","a","i","c","h","u","|","R","a","i","c","h","u",","," ","L","5","0","|","1","0","0","/","1","0","0">>,
   <<"|","d","r","a","g","|","p","2","a",":"," ","S","q","u","i","r","t","l","e","|","S","q","u","i","r","t","l","e","|","1","0","0","/","1","0","0">>,
   <<"|","m","o","v","e","|","p","1","a",":"," ","P","i","k","a","c","h","u","|","T","h","u","n","d","e","r","b","o","l","t","|","p","2","a",":"," ","S","q","u","i","r","t","l","e">>,
   <<"|","c","a","n","t","|","p","2","a",":"," ","S","q","u","i","r","t","l","e","|","p","a","r">>,
   <<"|","-","d","a","m","a","g","e","|","p","2","a",":"," ","S","q","u","i","r","t","l","e","|","5","0","/","1","0","0">>,
   <<"|","-","h","e","a","l","|","p","2","a",":"," ","S","q","u","i","r","t","l","e","|","5","6","/","1","0","0","|","[","f","r","o","m","]"," ","i","t","e","m",":"," ","L","e","f","t","o","v","e","r","s">>,
   <<"|","-","u","n","b","o","o","s","t","|","p","2","a",":"," ","S","q","u","i","r","t","l","e","|","a","t","k","|","1">>,
   <<"|","-","s","t","a","t","u","s","|","p","2","a",":"," ","S","q","u","i","r","t","l","e","|","p","a","r">>,
   <<"|","-","c","u","r","e","s","t","a","t","u","s","|","p","2","a",":"," ","S","q","u","i","r","t","l","e","|","p","a","r">>,
   <<"|","-","a","b","i","l","i","t","y","|","p","1","a",":"," ","P","i","k","a","c","h","u","|","I","n","t","i","m","i","d","a","t","e","|","b","o","o","s","t">>,
   <<"|","-","e","n","d","i","t","e","m","|","p","2","a",":"," ","S","q","u","i","r","t","l","e","|","S","i","t","r","u","s"," ","B","e","r","r","y","|","[","e","a","t","]">>,
   <<"|","-","f","i","e","l","d","s","t","a","r","t","|","m","o","v","e",":"," ","T","r","i","c","k"," ","R","o","o","m">>,
   <<"|","-","f","i","e","l","d","e","n","d","|","m","o","v","e",":"," ","T","r","i","c","k"," ","R","o","o","m">>,
   <<"|","-","w","e","a","t","h","e","r","|","R","a","i","n","D","a","n","c","e">>,
   <<"|","-","s","i","d","e","s","t","a","r","t","|","p","1",":"," ","A","s","h","|","m","o","v","e",":"," ","R","e","f","l","e","c","t">>,
   <<"|","-","s","i","d","e","e","n","d","|","p","1",":"," ","A","s","h","|","m","o","v","e",":"," ","R","e","f","l","e","c","t">>,
   <<"|","-","t","e","r","r","a","i","n","|","G","r","a","s","s","y">>,
   <<"|","-","m","e","s","s","a","g","e","|","M","i","s","t","y"," ","f","o","r","f","e","i","t","e","d",".">>,
   <<"|","-","s","i","n","g","l","e","t","u","r","n","|","p","2","a",":"," ","S","q","u","i","r","t","l","e","|","P","r","o","t","e","c","t">>,
   <<"|","-","a","c","t","i","v","a","t","e","|","p","2","a",":"," ","S","q","u","i","r","t","l","e","|","m","o","v","e",":"," ","P","r","o","t","e","c","t">>,
   <<"|","-","f","a","i","l","|","p","1","a",":"," ","P","i","k","a","c","h","u">>,
   <<"|","-","m","i","s","s","|","p","1","a",":"," ","P","i","k","a","c","h","u","|","p","2","a",":"," ","S","q","u","i","r","t","l","e">>,
   <<"|","-","i","m","m","u","n","e","|","p","2","a",":"," ","S","q","u","i","r","t","l","e">>,
   <<"|","f","a","i","n","t","|","p","2","a",":"," ","S","q","u","i","r","t","l","e">>,
   <<"|","-","t","e","r","a","s","t","a","l","l","i","z","e","|","p","1","a",":"," ","P","i","k","a","c","h","u","|","E","l","e","c","t","r","i","c">>,
   <<"|","d","e","t","a","i","l","s","c","h","a","n","g","e","|","p","1","a",":"," ","P","i","k","a","c","h","u","|","P","i","k","a","c","h","u","-","M","e","g","a">>,
   <<"|","u","p","k","e","e","p">>, <<>>,
   \* records that stop after the tag or after the first field
   <<"|","p","o","k","e","|","p","1">>, <<"|","s","w","i","t","c","h">>, <<"|","m","o","v","e","|","p","1","a",":"," ","P","i","k","a","c","h","u">>, <<"|","-","d","a","m","a","g","e","|","p","2","a",":"," ","S","q","u","i","r","t","l","e">>,
   <<"|","-","b","o","o","s","t","|","p","1","a",":"," ","P","i","k","a","c","h","u">>,
   \* a species name again, in another spelling
   <<"|","p","o","k","e","|","p","1","|","p","i","k","a","c","h","u",","," ","L","5","0">>}

Next ==
  \/ Player(Lines, MaxLines) \/ Format(Lines, MaxLines) \/ Win(Lines, MaxLines)
  \/ Loss(Lines, MaxLines) \/ Turn(Lines, MaxLines) \/ Poke(Lines, MaxLines)
  \/ Switch(Lines, MaxLines) \/ Move(Lines, MaxLines) \/ Cant(Lines, MaxLines)
  \/ Damage(Lines, MaxLines) \/ Boost(Lines, MaxLines) \/ Status(Lines, MaxLines)
  \/ CureStatus(Lines, MaxLines) \/ Ability(Lines, MaxLines)
  \/ Item(Lines, MaxLines) \/ FieldStart(Lines, MaxLines)
  \/ FieldEnd(Lines, MaxLines) \/ Weather(Lines, MaxLines)
  \/ SideStart(Lines, MaxLines) \/ SideEnd(Lines, MaxLines)
  \/ Terrain(Lines, MaxLines) \/ Message(Lines, MaxLines)
  \/ SingleTurn(Lines, MaxLines) \/ Activate(Lines, MaxLines)
  \/ Fail(Lines, MaxLines) \/ Miss(Lines, MaxLines) \/ Immune(Lines, MaxLines)
  \/ Faint(Lines, MaxLines) \/ Terastallize(Lines, MaxLines)
  \/ Forme(Lines, MaxLines) \/ Other(Lines, MaxLines) \/ Render

Spec == Init /\ [][Next]_vars

(***************************************************************************)
(* BattleSpec: the records of a battle's turns, on a log of at most        *)
(* MaxBattle lines                                                         *)
(***************************************************************************)
MaxBattle == 3

BattleLines ==
  {<<"|","t","u","r","n","|","0">>, <<"|","t","u","r","n","|","1">>, <<"|","t","u","r","n","|","2">>,
   <<"|","m","o","v","e","|","p","1","a",":"," ","P","i","k","a","c","h","u","|","U","-","t","u","r","n","|","p","2","a",":"," ","S","q","u","i","r","t","l","e">>,
   <<"|","s","w","i","t","c","h","|","p","1","a",":"," ","R","a","i","c","h","u","|","R","a","i","c","h","u",","," ","L","5","0","|","1","0","0","/","1","0","0","|","[","f","r","o","m","]"," ","U","-","t","u","r","n">>,
   <<"|","s","w","i","t","c","h","|","p","1","a",":"," ","R","a","i","c","h","u","|","R","a","i","c","h","u",","," ","L","5","0","|","1","0","0","/","1","0","0">>,
   <<"|","d","r","a","g","|","p","2","a",":"," ","W","a","r","t","o","r","t","l","e","|","W","a","r","t","o","r","t","l","e","|","1","0","0","/","1","0","0","|","[","f","r","o","m","]"," ","W","h","i","r","l","w","i","n","d">>,
   <<"|","-","d","a","m","a","g","e","|","p","2","a",":"," ","S","q","u","i","r","t","l","e","|","5","0","/","1","0","0">>,
   <<"|","-","d","a","m","a","g","e","|","p","2","a",":"," ","S","q","u","i","r","t","l","e","|","3","8","/","1","0","0","|","[","f","r","o","m","]"," ","p","s","n">>,
   <<"|","-","h","e","a","l","|","p","1","a",":"," ","P","i","k","a","c","h","u","|","1","0","0","/","1","0","0","|","[","f","r","o","m","]"," ","i","t","e","m",":"," ","L","e","f","t","o","v","e","r","s">>,
   <<"|","-","u","n","b","o","o","s","t","|","p","2","a",":"," ","S","q","u","i","r","t","l","e","|","a","t","k","|","1">>,
   <<"|","-","a","b","i","l","i","t","y","|","p","1","a",":"," ","P","i","k","a","c","h","u","|","I","n","t","i","m","i","d","a","t","e","|","b","o","o","s","t">>,
   <<"|","-","f","i","e","l","d","e","n","d","|","m","o","v","e",":"," ","T","r","i","c","k"," ","R","o","o","m">>,
   <<"|","f","a","i","n","t","|","p","1","a",":"," ","P","i","k","a","c","h","u">>,
   <<"|","-","s","i","n","g","l","e","t","u","r","n","|","p","1","a",":"," ","P","i","k","a","c","h","u","|","P","r","o","t","e","c","t">>}

BattleNext ==
  \/ Turn(BattleLines, MaxBattle) \/ Move(BattleLines, MaxBattle)
  \/ Switch(BattleLines, MaxBattle) \/ Damage(BattleLines, MaxBattle)
  \/ Boost(BattleLines, MaxBattle) \/ Ability(BattleLines, MaxBattle)
  \/ FieldEnd(BattleLines, MaxBattle) \/ Faint(BattleLines, MaxBattle)
  \/ SingleTurn(BattleLines, MaxBattle)

BattleSpec == Init /\ [][BattleNext]_vars

(***************************************************************************)
(* ResultSpec: the records of the result and the rendering, on a log of at *)
(* most MaxResult lines                                                    *)
(***************************************************************************)
MaxResult == 3

ResultLines ==
  {<<"|","p","l","a","y","e","r","|","p","2","|","B","r","o","c","k">>,
   <<"|","w","i","n","|","A","s","h">>, <<"|","w","i","n","|","M","i","s","t","y">>, <<"|","w","i","n","|","G","a","r","y">>,
   <<"|","l","|","M","i","s","t","y">>,
   <<"|","-","m","e","s","s","a","g","e","|","M","i","s","t","y"," ","f","o","r","f","e","i","t","e","d",".">>, <<"|","-","m","e","s","s","a","g","e","|","G","o","o","d"," ","g","a","m","e">>,
   <<"|","t","u","r","n","|","1">>, <<"|","t","u","r","n","|","2">>,
   <<"|","m","o","v","e","|","p","1","a",":"," ","P","i","k","a","c","h","u","|","T","h","u","n","d","e","r","b","o","l","t","|","p","2","a",":"," ","S","q","u","i","r","t","l","e">>,
   <<"|","-","d","a","m","a","g","e","|","p","2","a",":"," ","S","q","u","i","r","t","l","e","|","3","8","/","1","0","0","|","[","f","r","o","m","]"," ","p","s","n">>}

ResultNext ==
  \/ Player(ResultLines, MaxResult) \/ Win(ResultLines, MaxResult)
  \/ Loss(ResultLines, MaxResult) \/ Message(ResultLines, MaxResult)
  \/ Turn(ResultLines, MaxResult) \/ Move(ResultLines, MaxResult)
  \/ Damage(ResultLines, MaxResult) \/ Render

ResultSpec == Init /\ [][ResultNext]_vars

(***************************************************************************)
(* MirrorSpec: both sides bring the same species, on a log of at most      *)
(* MaxMirror lines                                                         *)
(***************************************************************************)
MaxMirror == 3

MirrorLines ==
  {<<"|","p","o","k","e","|","p","1","|","P","i","k","a","c","h","u",","," ","L","5","0","|">>, <<"|","p","o","k","e","|","p","2","|","P","i","k","a","c","h","u",","," ","L","5","0">>,
   <<"|","s","w","i","t","c","h","|","p","1","a",":"," ","P","i","k","a","c","h","u","|","P","i","k","a","c","h","u",","," ","L","5","0","|","1","0","0","/","1","0","0">>,
   <<"|","s","w","i","t","c","h","|","p","2","a",":"," ","P","i","k","a","c","h","u","|","P","i","k","a","c","h","u",","," ","L","5","0","|","1","0","0","/","1","0","0">>,
   <<"|","t","u","r","n","|","1">>,
   <<"|","m","o","v","e","|","p","1","a",":"," ","P","i","k","a","c","h","u","|","T","h","u","n","d","e","r","b","o","l","t","|","p","2","a",":"," ","P","i","k","a","c","h","u">>,
   <<"|","m","o","v","e","|","p","2","a",":"," ","P","i","k","a","c","h","u","|","T","h","u","n","d","e","r","b","o","l","t","|","p","1","a",":"," ","P","i","k","a","c","h","u">>,
   <<"|","c","a","n","t","|","p","1","a",":"," ","P","i","k","a","c","h","u","|","p","a","r">>, <<"|","c","a","n","t","|","p","2","a",":"," ","P","i","k","a","c","h","u","|","p","a","r">>,
   <<"|","-","d","a","m","a","g","e","|","p","2","a",":"," ","P","i","k","a","c","h","u","|","5","0","/","1","0","0">>}

MirrorNext ==
  \/ Poke(MirrorLines, MaxMirror) \/ Switch(MirrorLines, MaxMirror)
  \/ Turn(MirrorLines, MaxMirror) \/ Move(MirrorLines, MaxMirror)
  \/ Cant(MirrorLines, MaxMirror) \/ Damage(MirrorLines, MaxMirror)

MirrorSpec == Init /\ [][MirrorNext]_vars

(***************************************************************************)
(* EntrySpec: calls of parseReplayData, each on a whole ReplayJSON; at     *)
(* most MaxCalls calls, one after the other                                *)
(***************************************************************************)
MaxCalls == 2

\* the text of a log with these lines
LogOf(lines) == join(lines, <<"\n">>)

ExampleLog ==
  LogOf(<<<<"|","p","l","a","y","e","r","|","p","1","|","A","s","h">>, <<"|","p","l","a","y","e","r","|","p","2","|","M","i","s","t","y">>,
          <<"|","t","u","r","n","|","1">>,
          <<"|","m","o","v","e","|","p","1","a",":"," ","P","i","k","a","c","h","u","|","T","h","u","n","d","e","r","b","o","l","t","|","p","2","a",":"," ","S","q","u","i","r","t","l","e">>,
          <<"|","-","d","a","m","a","g","e","|","p","2","a",":"," ","S","q","u","i","r","t","l","e","|","5","0","/","1","0","0">>,
          <<"|","t","u","r","n","|","2">>,
          <<"|","w","i","n","|","A","s","h">>>>)

FullLog ==
  LogOf(<<<<"|","p","o","k","e","|","p","1","|","P","i","k","a","c","h","u",","," ","L","5","0">>,
          <<"|","s","w","i","t","c","h","|","p","1","a",":"," ","P","i","k","a","c","h","u","|","P","i","k","a","c","h","u",","," ","L","5","0","|","1","0","0","/","1","0","0">>,
          <<"|","s","w","i","t","c","h","|","p","2","a",":"," ","S","q","u","i","r","t","l","e","|","S","q","u","i","r","t","l","e",","," ","L","5","0","|","1","0","0","/","1","0","0">>,
          <<"|","s","t","a","r","t">>,
          <<"|","t","u","r","n","|","1">>,
          <<"|","m","o","v","e","|","p","1","a",":"," ","P","i","k","a","c","h","u","|","T","h","u","n","d","e","r","b","o","l","t","|","p","2","a",":"," ","S","q","u","i","r","t","l","e">>,
          <<"|","-","d","a","m","a","g","e","|","p","2","a",":"," ","S","q","u","i","r","t","l","e","|","0"," ","f","n","t">>,
          <<"|","f","a","i","n","t","|","p","2","a",":"," ","S","q","u","i","r","t","l","e">>,
          <<>>>>)

Inputs ==
  {[id |-> <<"g","e","n","9","o","u","-","1">>, format |-> Undef, players |-> <<>>, log |-> ExampleLog],
   [id |-> <<"g","e","n","9","o","u","-","2">>, format |-> <<"[","G","e","n"," ","9","]"," ","O","U">>,
    players |-> <<<<"B","r","o","c","k">>, <<"G","a","r","y">>>>, log |-> FullLog],
   [id |-> <<"g","e","n","9","o","u","-","3">>, format |-> Undef, players |-> <<<<"B","r","o","c","k">>>>,
    log |-> LogOf(<<<<"|","w","i","n","|","B","r","o","c","k">>>>)],
   [id |-> <<"g","e","n","9","o","u","-","4">>, format |-> Undef, players |-> <<>>, log |-> Undef],
   [id |-> <<"g","e","n","9","o","u","-","5">>, format |-> Undef, players |-> <<>>, log |-> <<>>]}

\* no ParseContext exists
NoContext == [turns |-> <<>>]

\* the argument of the call in progress
CurrentData == calls[Len(calls)].data
\* log.split("\n") on the log of the call in progress
InputLines ==
  IF calls = <<>> THEN <<>> ELSE split(Str(CurrentData.log), "\n")
\* the line that the loop of parseLog takes next
PendingLines ==
  IF status = "parsing" /\ Len(log) < Len(InputLines)
    THEN {InputLines[Len(log) + 1]}
    ELSE {}

\* variant: only an absent log is refused
hasLogField(data) == data.log # Undef

\* !data.log is false
hasLog(data) == Truthy(data.log)

\* the calls so far, the outcome of the last one filled in
Returned ==
  IF calls = <<>> THEN calls
  ELSE [calls EXCEPT ![Len(calls)].outcome = [status |-> status, out |-> out]]

\* parseReplayData(data) is called, no call being in progress: the check of
\* data.log, then the context of this call
Call ==
  /\ status \in {"idle", "done", "failed", "aborted"}
  /\ Len(calls) < MaxCalls
  /\ \E data \in Inputs :
       /\ calls' = Append(Returned, [data |-> data, outcome |-> Undef])
       /\ log' = <<>>
       /\ out' = NoOutput
       /\ IF hasLog(data)
            THEN /\ ctx' = contextFor(data.players, data.format)
                 /\ status' = "parsing"
            ELSE /\ ctx' = NoContext
                 /\ status' = "failed"
  /\ util' = util

\* parseLog has taken every line of the log
Return == Len(log) = Len(InputLines) /\ Render

EntryInit ==
  /\ ctx = NoContext
  /\ log = <<>>
  /\ status = "idle"
  /\ out = NoOutput
  /\ calls = <<>>
  /\ util = NoCall

EntryNext ==
  \/ Call
  \/ Player(PendingLines, Len(InputLines)) \/ Win(PendingLines, Len(InputLines))
  \/ Turn(PendingLines, Len(InputLines)) \/ Poke(PendingLines, Len(InputLines))
  \/ Switch(PendingLines, Len(InputLines)) \/ Move(PendingLines, Len(InputLines))
  \/ Damage(PendingLines, Len(InputLines)) \/ Faint(PendingLines, Len(InputLines))
  \/ Other(PendingLines, Len(InputLines)) \/ Return

EntrySpec == EntryInit /\ [][EntryNext]_vars

(***************************************************************************)
(* UtilSpec: the functions of utils.ts, each called on its own on a name   *)
(* of at most MaxLen characters, on an HP token or on an annotation        *)
(***************************************************************************)
MaxLen == 3

NameChars == {"M", "r", ".", " ", "-", "o", "0", "H"}
RECURSIVE NamesUpTo(_)
NamesUpTo(n) ==
  IF n = 0 THEN {<<>>}
  ELSE {Append(s, ch) : s \in NamesUpTo(n - 1), ch \in NameChars} \cup {<<>>}
Names == NamesUpTo(MaxLen) \cup {Undef, <<"M","r","."," ","M","i","m","e">>, <<"H","o","-","O","h">>}

HPTokens ==
  {hp \o sep \o st :
     hp \in {<<"4","8","/","1","0","0">>, <<"0">>, <<"1","0","0","/","1","0","0">>, <<"7","/","1","0","0">>, <<"4","8","/","2","0","0">>, <<"1","0","0">>,
             <<"a","/","1","0","0">>, <<>>},
     sep \in {<<" ">>, <<" "," ">>},
     st \in {<<>>, <<"p","s","n">>, <<"f","n","t">>, <<"p","a","r">>, <<"t","o","x"," ","f","n","t">>, <<"f","n","t"," ","s","l","p">>}}

Annotations ==
  {<<"[">> \o tag \o <<"]">> \o sep \o content :
     tag \in {<<"f","r","o","m">>, <<"o","f">>, <<"s","p","r","e","a","d">>, <<"s","i","l","e","n","t">>, <<"u","p","k","e","e","p">>, <<"m","s","g">>},
     sep \in {<<>>, <<" ">>},
     content \in {<<>>, <<"a","b","i","l","i","t","y",":"," ","I","n","t","i","m","i","d","a","t","e">>, <<"i","t","e","m",":"," ","L","e","f","t","o","v","e","r","s">>,
                  <<"m","o","v","e",":"," ","U","-","t","u","r","n">>, <<"S","t","e","a","l","t","h"," ","R","o","c","k">>, <<"p","2","a",":"," ","S","q","u","i","r","t","l","e">>}}
  \cup {<<"S","t","e","a","l","t","h"," ","R","o","c","k">>, <<"[","]">>, <<>>}

Called(fn, arg, ret) ==
  /\ util' = [fn |-> fn, arg |-> arg, ret |-> ret]
  /\ UNCHANGED <<ctx, log, status, out, calls>>

ToId ==
  /\ util = NoCall
  /\ \E text \in Names : Called("toId", text, toId(text))
ToIconId ==
  /\ util = NoCall
  /\ \E text \in Names : Called("toIconId", text, toIconId(text))
\* formatHPStatus(parseHPStatus(raw)), as the dispatcher displays an HP field
HPStatusShown ==
  /\ util = NoCall
  /\ \E raw \in HPTokens :
       Called("formatHPStatus", raw, formatHPStatus(parseHPStatus(raw)))
SimplifyBracketText ==
  /\ util = NoCall
  /\ \E segment \in Annotations :
       Called("simplifyBracketText", segment, simplifyBracketText(segment))

UtilInit ==
  /\ ctx = NoContext
  /\ log = <<>>
  /\ status = "idle"
  /\ out = NoOutput
  /\ calls = <<>>
  /\ util = NoCall

UtilNext == ToId \/ ToIconId \/ HPStatusShown \/ SimplifyBracketText

UtilSpec == UtilInit /\ [][UtilNext]_vars

(***************************************************************************)
(* ExitSpec: switches that an ability, an item or a move brings about, on  *)
(* a log of at most MaxExit lines                                          *)
(***************************************************************************)
MaxExit == 3

ExitLines ==
  {<<"|","t","u","r","n","|","1">>,
   <<"|","m","o","v","e","|","p","1","a",":"," ","P","i","k","a","c","h","u","|","U","-","t","u","r","n","|","p","2","a",":"," ","S","q","u","i","r","t","l","e">>,
   <<"|","-","d","a","m","a","g","e","|","p","2","a",":"," ","S","q","u","i","r","t","l","e","|","5","0","/","1","0","0">>,
   <<"|","s","w","i","t","c","h","|","p","1","a",":"," ","R","a","i","c","h","u","|","R","a","i","c","h","u",","," ","L","5","0","|","1","0","0","/","1","0","0">>,
   <<"|","s","w","i","t","c","h","|","p","1","a",":"," ","R","a","i","c","h","u","|","R","a","i","c","h","u",","," ","L","5","0","|","1","0","0","/","1","0","0","|","[","f","r","o","m","]"," ","U","-","t","u","r","n">>,
   <<"|","s","w","i","t","c","h","|","p","1","a",":"," ","R","a","i","c","h","u","|","R","a","i","c","h","u",","," ","L","5","0","|","1","0","0","/","1","0","0","|","[","f","r","o","m","]"," ","a","b","i","l","i","t","y",":"," ","E","m","e","r","g","e","n","c","y"," ","E","x","i","t">>,
   <<"|","d","r","a","g","|","p","1","a",":"," ","R","a","i","c","h","u","|","R","a","i","c","h","u",","," ","L","5","0","|","1","0","0","/","1","0","0","|","[","f","r","o","m","]"," ","i","t","e","m",":"," ","E","j","e","c","t"," ","B","u","t","t","o","n">>}

ExitNext ==
  \/ Turn(ExitLines, MaxExit) \/ Move(ExitLines, MaxExit)
  \/ Damage(ExitLines, MaxExit) \/ Switch(ExitLines, MaxExit)

ExitSpec == Init /\ [][ExitNext]_vars

(***************************************************************************)
(* SummarySpec: records for every kind of line of the summary, and lines   *)
(* without a case, on a log of at most MaxSummary lines                    *)
(***************************************************************************)
MaxSummary == 3

SummaryLines ==
  {<<"|","p","o","k","e","|","p","1","|","P","i","k","a","c","h","u",","," ","L","5","0","|">>,
   <<"|","s","w","i","t","c","h","|","p","1","a",":"," ","P","i","k","a","c","h","u","|","P","i","k","a","c","h","u",","," ","L","5","0","|","1","0","0","/","1","0","0">>,
   <<"|","s","w","i","t","c","h","|","p","2","a",":"," ","S","q","u","i","r","t","l","e","|","S","q","u","i","r","t","l","e",","," ","L","5","0","|","1","0","0","/","1","0","0">>,
   <<"|","-","w","e","a","t","h","e","r","|","R","a","i","n","D","a","n","c","e">>,
   <<"|","t","u","r","n","|","1">>,
   <<"|","m","o","v","e","|","p","1","a",":"," ","P","i","k","a","c","h","u","|","T","h","u","n","d","e","r","b","o","l","t","|","p","2","a",":"," ","S","q","u","i","r","t","l","e">>,
   <<"|","-","d","a","m","a","g","e","|","p","2","a",":"," ","S","q","u","i","r","t","l","e","|","3","8","/","1","0","0","|","[","f","r","o","m","]"," ","p","s","n">>,
   <<"|","-","t","e","r","a","s","t","a","l","l","i","z","e","|","p","1","a",":"," ","P","i","k","a","c","h","u","|","E","l","e","c","t","r","i","c">>,
   <<"|","w","i","n","|","A","s","h">>,
   <<"|","u","p","k","e","e","p">>, <<"|","-","c","r","i","t","|","p","2","a",":"," ","S","q","u","i","r","t","l","e">>, <<>>}

SummaryNext ==
  \/ Poke(SummaryLines, MaxSummary) \/ Switch(SummaryLines, MaxSummary)
  \/ Weather(SummaryLines, MaxSummary) \/ Turn(SummaryLines, MaxSummary)
  \/ Move(SummaryLines, MaxSummary) \/ Damage(SummaryLines, MaxSummary)
  \/ Terastallize(SummaryLines, MaxSummary) \/ Win(SummaryLines, MaxSummary)
  \/ Other(SummaryLines, MaxSummary) \/ Render

SummarySpec == Init /\ [][SummaryNext]_vars

(***************************************************************************)
(* FieldSpec: field effects that end, between turn records, end-of-turn    *)
(* damage and moves, on a log of at most MaxField lines, then rendered     *)
(***************************************************************************)
MaxField == 5

FieldLines ==
  {<<"|","t","u","r","n","|","1">>,
   <<"|","t","u","r","n","|","2">>,
   <<"|","m","o","v","e","|","p","1","a",":"," ","P","i","k","a","c","h","u","|","T","h","u","n","d","e","r","b","o","l","t","|","p","2","a",":"," ","S","q","u","i","r","t","l","e">>,
   <<"|","-","f","i","e","l","d","e","n","d","|","m","o","v","e",":"," ","T","r","i","c","k"," ","R","o","o","m">>,
   <<"|","-","f","i","e","l","d","e","n","d","|","G","r","a","s","s","y"," ","T","e","r","r","a","i","n">>,
   <<"|","-","d","a","m","a","g","e","|","p","2","a",":"," ","S","q","u","i","r","t","l","e","|","3","8","/","1","0","0","|","[","f","r","o","m","]"," ","p","s","n">>}

FieldNext ==
  \/ Turn(FieldLines, MaxField) \/ Move(FieldLines, MaxField)
  \/ FieldEnd(FieldLines, MaxField) \/ Damage(FieldLines, MaxField)
  \/ Render

FieldSpec == Init /\ [][FieldNext]_vars

(***************************************************************************)
(* BoostSpec: boosts with and without a pending ability-boost aggregation, *)
(* an open self-targeting move and a source annotation, on a log of at     *)
(* most MaxBoost lines, then rendered                                      *)
(***************************************************************************)
MaxBoost == 4

BoostLines ==
  {<<"|","t","u","r","n","|","1">>,
   <<"|","m","o","v","e","|","p","1","a",":"," ","P","i","k","a","c","h","u","|","S","w","o","r","d","s"," ","D","a","n","c","e","|","p","1","a",":"," ","P","i","k","a","c","h","u">>,
   <<"|","-","a","b","i","l","i","t","y","|","p","1","a",":"," ","P","i","k","a","c","h","u","|","I","n","t","i","m","i","d","a","t","e","|","b","o","o","s","t">>,
   <<"|","-","b","o","o","s","t","|","p","1","a",":"," ","P","i","k","a","c","h","u","|","a","t","k","|","2">>,
   <<"|","-","u","n","b","o","o","s","t","|","p","2","a",":"," ","S","q","u","i","r","t","l","e","|","a","t","k","|","1">>,
   <<"|","-","b","o","o","s","t","|","p","1","a",":"," ","P","i","k","a","c","h","u","|","s","p","a","|","1","|","[","f","r","o","m","]"," ","i","t","e","m",":"," ","T","h","r","o","a","t"," ","S","p","r","a","y">>}

BoostNext ==
  \/ Turn(BoostLines, MaxBoost) \/ Move(BoostLines, MaxBoost)
  \/ Ability(BoostLines, MaxBoost) \/ Boost(BoostLines, MaxBoost)
  \/ Render

BoostSpec == Init /\ [][BoostNext]_vars

(***************************************************************************)
(* FaintSpec: faints and the switches that follow them, voluntary or       *)
(* forced by a move, on a log of at most MaxFaint lines                    *)
(***************************************************************************)
MaxFaint == 4

FaintLines ==
  {<<"|","t","u","r","n","|","1">>,
   <<"|","s","w","i","t","c","h","|","p","1","a",":"," ","P","i","k","a","c","h","u","|","P","i","k","a","c","h","u",","," ","L","5","0","|","1","0","0","/","1","0","0">>,
   <<"|","s","w","i","t","c","h","|","p","1","a",":"," ","R","a","i","c","h","u","|","R","a","i","c","h","u",","," ","L","5","0","|","1","0","0","/","1","0","0">>,
   <<"|","m","o","v","e","|","p","1","a",":"," ","P","i","k","a","c","h","u","|","U","-","t","u","r","n","|","p","2","a",":"," ","S","q","u","i","r","t","l","e">>,
   <<"|","s","w","i","t","c","h","|","p","1","a",":"," ","R","a","i","c","h","u","|","R","a","i","c","h","u",","," ","L","5","0","|","1","0","0","/","1","0","0","|","[","f","r","o","m","]"," ","U","-","t","u","r","n">>,
   <<"|","f","a","i","n","t","|","p","1","a",":"," ","P","i","k","a","c","h","u">>,
   <<"|","f","a","i","n","t","|","p","2","a",":"," ","S","q","u","i","r","t","l","e">>}

FaintNext ==
  \/ Turn(FaintLines, MaxFaint) \/ Switch(FaintLines, MaxFaint)
  \/ Move(FaintLines, MaxFaint) \/ Faint(FaintLines, MaxFaint)

FaintSpec == Init /\ [][FaintNext]_vars

(***************************************************************************)
(* StartSpec: field effects that start, after a move of the same name or   *)
(* not, with and without an ability as their source, on a log of at most   *)
(* MaxStart lines                                                          *)
(***************************************************************************)
MaxStart == 4

StartLines ==
  {<<"|","t","u","r","n","|","1">>,
   <<"|","t","u","r","n","|","2">>,
   <<"|","s","w","i","t","c","h","|","p","2","a",":"," ","T","a","p","u"," ","L","e","l","e","|","T","a","p","u"," ","L","e","l","e","|","1","0","0","/","1","0","0">>,
   <<"|","m","o","v","e","|","p","1","a",":"," ","P","i","k","a","c","h","u","|","P","s","y","c","h","i","c"," ","T","e","r","r","a","i","n">>,
   <<"|","-","f","i","e","l","d","s","t","a","r","t","|","m","o","v","e",":"," ","P","s","y","c","h","i","c"," ","T","e","r","r","a","i","n">>,
   <<"|","-","f","i","e","l","d","s","t","a","r","t","|","m","o","v","e",":"," ","T","r","i","c","k"," ","R","o","o","m">>,
   <<"|","-","f","i","e","l","d","s","t","a","r","t","|","m","o","v","e",":"," ","P","s","y","c","h","i","c"," ","T","e","r","r","a","i","n","|","[","f","r","o","m","]"," ","a","b","i","l","i","t","y",":"," ","P","s","y","c","h","i","c"," ","S","u","r","g","e","|","[","o","f","]"," ","p","2","a",":"," ","T","a","p","u"," ","L","e","l","e">>}

StartNext ==
  \/ Turn(StartLines, MaxStart) \/ Switch(StartLines, MaxStart)
  \/ Move(StartLines, MaxStart) \/ FieldStart(StartLines, MaxStart)

StartSpec == Init /\ [][StartNext]_vars

(***************************************************************************)
(* WeatherSpec: weather that starts, is kept up and ends, after a move of  *)
(* the same name or not, on a log of at most MaxWeather lines              *)
(***************************************************************************)
MaxWeather == 3

WeatherLines ==
  {<<"|","t","u","r","n","|","1">>,
   <<"|","m","o","v","e","|","p","1","a",":"," ","P","i","k","a","c","h","u","|","R","a","i","n"," ","D","a","n","c","e">>,
   <<"|","m","o","v","e","|","p","1","a",":"," ","P","i","k","a","c","h","u","|","T","h","u","n","d","e","r","b","o","l","t","|","p","2","a",":"," ","S","q","u","i","r","t","l","e">>,
   <<"|","-","w","e","a","t","h","e","r","|","R","a","i","n","D","a","n","c","e">>,
   <<"|","-","w","e","a","t","h","e","r","|","R","a","i","n","D","a","n","c","e","|","[","u","p","k","e","e","p","]">>,
   <<"|","-","w","e","a","t","h","e","r","|","S","a","n","d","s","t","o","r","m">>,
   <<"|","-","w","e","a","t","h","e","r","|","n","o","n","e">>}

WeatherNext ==
  \/ Turn(WeatherLines, MaxWeather) \/ Move(WeatherLines, MaxWeather)
  \/ Weather(WeatherLines, MaxWeather)

WeatherSpec == Init /\ [][WeatherNext]_vars

(***************************************************************************)
(* SideSpec: side conditions that start and end on either side, on a log   *)
(* of at most MaxSide lines                                                *)
(***************************************************************************)
MaxSide == 4

SideLines ==
  {<<"|","t","u","r","n","|","1">>,
   <<"|","m","o","v","e","|","p","1","a",":"," ","P","i","k","a","c","h","u","|","T","h","u","n","d","e","r","b","o","l","t","|","p","2","a",":"," ","S","q","u","i","r","t","l","e">>,
   <<"|","-","s","i","d","e","s","t","a","r","t","|","p","1",":"," ","A","s","h","|","R","e","f","l","e","c","t">>,
   <<"|","-","s","i","d","e","s","t","a","r","t","|","p","2",":"," ","M","i","s","t","y","|","R","e","f","l","e","c","t">>,
   <<"|","-","s","i","d","e","e","n","d","|","p","1",":"," ","A","s","h","|","R","e","f","l","e","c","t">>,
   <<"|","-","s","i","d","e","e","n","d","|","p","2",":"," ","M","i","s","t","y","|","R","e","f","l","e","c","t">>,
   <<"|","-","s","i","d","e","e","n","d","|","p","1",":"," ","A","s","h","|","m","o","v","e",":"," ","T","a","i","l","w","i","n","d">>}

SideNext ==
  \/ Turn(SideLines, MaxSide) \/ Move(SideLines, MaxSide)
  \/ SideStart(SideLines, MaxSide) \/ SideEnd(SideLines, MaxSide)

SideSpec == Init /\ [][SideNext]_vars

(***************************************************************************)
(* ProtectSpec: Protect and immunity of the target of the open move and of *)
(* another pokemon, on a log of at most MaxProtect lines                   *)
(***************************************************************************)
MaxProtect == 4

ProtectLines ==
  {<<"|","t","u","r","n","|","1">>,
   <<"|","m","o","v","e","|","p","1","a",":"," ","P","i","k","a","c","h","u","|","T","h","u","n","d","e","r","b","o","l","t","|","p","2","a",":"," ","S","q","u","i","r","t","l","e">>,
   <<"|","m","o","v","e","|","p","1","a",":"," ","P","i","k","a","c","h","u","|","S","w","o","r","d","s"," ","D","a","n","c","e">>,
   <<"|","-","a","c","t","i","v","a","t","e","|","p","2","a",":"," ","S","q","u","i","r","t","l","e","|","m","o","v","e",":"," ","P","r","o","t","e","c","t">>,
   <<"|","-","a","c","t","i","v","a","t","e","|","p","1","a",":"," ","P","i","k","a","c","h","u","|","m","o","v","e",":"," ","P","r","o","t","e","c","t">>,
   <<"|","-","i","m","m","u","n","e","|","p","2","a",":"," ","S","q","u","i","r","t","l","e">>,
   <<"|","-","i","m","m","u","n","e","|","p","1","a",":"," ","P","i","k","a","c","h","u">>}

ProtectNext ==
  \/ Turn(ProtectLines, MaxProtect) \/ Move(ProtectLines, MaxProtect)
  \/ Activate(ProtectLines, MaxProtect) \/ Immune(ProtectLines, MaxProtect)

ProtectSpec == Init /\ [][ProtectNext]_vars

(***************************************************************************)
(* SeparatorSpec: moves with one other target, with no target and with the *)
(* user as target, followed by HP changes and stat changes, on a log of at *)
(* most MaxSeparator lines, then rendered                                  *)
(***************************************************************************)
MaxSeparator == 4

SeparatorLines ==
  {<<"|","t","u","r","n","|","1">>,
   <<"|","m","o","v","e","|","p","1","a",":"," ","P","i","k","a","c","h","u","|","T","h","u","n","d","e","r","b","o","l","t","|","p","2","a",":"," ","S","q","u","i","r","t","l","e">>,
   <<"|","m","o","v","e","|","p","1","a",":"," ","P","i","k","a","c","h","u","|","S","w","o","r","d","s"," ","D","a","n","c","e">>,
   <<"|","m","o","v","e","|","p","1","a",":"," ","P","i","k","a","c","h","u","|","R","e","c","o","v","e","r","|","p","1","a",":"," ","P","i","k","a","c","h","u">>,
   <<"|","-","d","a","m","a","g","e","|","p","2","a",":"," ","S","q","u","i","r","t","l","e","|","5","0","/","1","0","0">>,
   <<"|","-","u","n","b","o","o","s","t","|","p","2","a",":"," ","S","q","u","i","r","t","l","e","|","s","p","d","|","1">>}

SeparatorNext ==
  \/ Turn(SeparatorLines, MaxSeparator) \/ Move(SeparatorLines, MaxSeparator)
  \/ Damage(SeparatorLines, MaxSeparator) \/ Boost(SeparatorLines, MaxSeparator)
  \/ Render

SeparatorSpec == Init /\ [][SeparatorNext]_vars

(***************************************************************************)
(* FrozenSpec: actions followed by records that rewrite the registry entry *)
(* of their pokemon (a switch into the same ref, a forme change, a roster  *)
(* that becomes a mirror match) and by Protect, on a log of at most        *)
(* MaxFrozen lines                                                         *)
(***************************************************************************)
MaxFrozen == 4

FrozenLines ==
  {<<"|","t","u","r","n","|","1">>,
   <<"|","s","w","i","t","c","h","|","p","1","a",":"," ","P","i","k","a","c","h","u","|","P","i","k","a","c","h","u",","," ","L","5","0","|","1","0","0","/","1","0","0">>,
   <<"|","s","w","i","t","c","h","|","p","1","a",":"," ","R","a","i","c","h","u","|","R","a","i","c","h","u",","," ","L","5","0","|","1","0","0","/","1","0","0">>,
   <<"|","s","w","i","t","c","h","|","p","1","a",":"," ","R","a","i","c","h","u">>,
   <<"|","s","w","i","t","c","h","|","p","2","a",":"," ","P","i","k","a","c","h","u","|","P","i","k","a","c","h","u",","," ","L","5","0","|","1","0","0","/","1","0","0">>,
   <<"|","m","o","v","e","|","p","1","a",":"," ","P","i","k","a","c","h","u","|","T","h","u","n","d","e","r","b","o","l","t","|","p","2","a",":"," ","P","i","k","a","c","h","u">>,
   <<"|","d","e","t","a","i","l","s","c","h","a","n","g","e","|","p","1","a",":"," ","P","i","k","a","c","h","u","|","P","i","k","a","c","h","u","-","G","m","a","x">>,
   <<"|","-","a","c","t","i","v","a","t","e","|","p","2","a",":"," ","P","i","k","a","c","h","u","|","m","o","v","e",":"," ","P","r","o","t","e","c","t">>}

FrozenNext ==
  \/ Turn(FrozenLines, MaxFrozen) \/ Switch(FrozenLines, MaxFrozen)
  \/ Move(FrozenLines, MaxFrozen) \/ Forme(FrozenLines, MaxFrozen)
  \/ Activate(FrozenLines, MaxFrozen)

FrozenSpec == Init /\ [][FrozenNext]_vars

(***************************************************************************)
(* The log, as the properties read it                                      *)
(***************************************************************************)
LastOf(s) == s[Len(s)]
\* the indices of the records of the log with the tag tag
RecordsTagged(tag) == {i \in 1..Len(log) : TagOf(log[i]) = tag}
\* the step takes a record and its case returns
Taken == log' # log /\ status' = "parsing"
\* the pokemon token of a record
RecordRef(l) == parsePokemonRef(Part(Parts(l), 1)).ref
\* the lists of actions of all turns
AllActions(c) == [i \in 1..Len(c.turns) |-> c.turns[i].actions]

(***************************************************************************)
(* Properties                                                              *)
(***************************************************************************)

\* C1: a record whose tag is recognized and whose field list stops after the
\* tag or after the first field raises no error: the run is never aborted on
\* such a record.
ShortRecordNeverAborts ==
  \A i \in 1..Len(log) :
    (TagOf(log[i]) \in RecognizedTags /\ Len(Parts(log[i])) <= 2)
      => ~(status = "aborted" /\ i = Len(log))

\* the switch record l follows the move record m of the same pokemon and
\* carries a [from] annotation that names neither an ability nor an item
IsForcedSwitchAfter(l, m) ==
  /\ TagOf(m) = <<"m","o","v","e">> /\ Len(Parts(m)) >= 3
  /\ TagOf(l) \in SwitchTags /\ Len(Parts(l)) >= 5
  /\ RecordRef(l) = RecordRef(m)
  /\ \E i \in 5..Len(Parts(l)) :
       /\ startsWith(Parts(l)[i], <<"[","f","r","o","m","]"," ">>)
       /\ ~startsWith(Parts(l)[i], <<"[","f","r","o","m","]"," ","a","b","i","l","i","t","y",":">>)
       /\ ~startsWith(Parts(l)[i], <<"[","f","r","o","m","]"," ","i","t","e","m",":">>)

\* C2: a move record adds exactly one action to the current turn; a switch,
\* drag or replace record for the same pokemon that follows it at once with a
\* [from] annotation naming neither an ability nor an item adds no action: the
\* turn keeps its actions' types, the move stays the open action and is the
\* last action of the turn, and its last detail is "previous -> new".
ForcedSwitchMerge ==
  [][ /\ (Taken /\ TagOf(LastOf(log')) = <<"m","o","v","e">>)
        => /\ ctx'.currentTurn = ctx.currentTurn
           /\ Len(CurTurn(ctx').actions) = Len(CurTurn(ctx).actions) + 1
           /\ LastOf(CurTurn(ctx').actions).type = "move"
      /\ (Taken /\ log # <<>> /\ IsForcedSwitchAfter(LastOf(log'), LastOf(log)))
        => /\ ctx'.currentTurn = ctx.currentTurn
           /\ Len(CurTurn(ctx').actions) = Len(CurTurn(ctx).actions)
           /\ \A i \in 1..Len(CurTurn(ctx).actions) :
                CurTurn(ctx').actions[i].type = CurTurn(ctx).actions[i].type
           /\ HasAction(ctx')
           /\ ctx'.currentAction = ctx.currentAction
           /\ ctx'.currentAction = <<ctx.currentTurn, Len(CurTurn(ctx).actions)>>
           /\ CurAction(ctx').type = "move"
           /\ CurAction(ctx').details # <<>>
           /\ LastOf(CurAction(ctx').details).text
                = MonName(ctx, RecordRef(LastOf(log))) \o <<" ","-",">"," ">>
                  \o MonName(ctx', RecordRef(LastOf(log)))
    ]_vars

\* C2, reached: U-turn by Pikachu, then the switch to Raichu from U-turn; the
\* turn has the one action, the move, whose last detail is the switch.
ForcedSwitchMerged ==
  /\ status = "parsing"
  /\ Len(log) >= 2
  /\ IsForcedSwitchAfter(log[Len(log)], log[Len(log) - 1])
  /\ Len(CurTurn(ctx).actions) = 1
  /\ HasAction(ctx)
  /\ CurAction(ctx).type = "move"
  /\ LastOf(CurAction(ctx).details).text = <<"P","i","k","a","c","h","u"," ","-",">"," ","R","a","i","c","h","u">>

\* the annotations of a record are those of a damage or heal record that
\* names an end-of-turn source
IsEndOfTurnRecord(l) ==
  /\ TagOf(l) \in DamageTags
  /\ Len(Parts(l)) >= 3
  /\ \E e \in RangeOf(parseExtras(Parts(l), 3)) : isEndOfTurnSource(e)

\* what C3 asks of the step from c to d that takes such a record, whose
\* annotations are extras
EndOfTurnDetailPlaced(c, d, extras) ==
  \A before \in {CurTurn(c).endEvents}, after \in {CurTurn(d).endEvents},
     buffered \in {c.pendingFieldEnds},
     note \in {<<"(">> \o join(extras, <<";"," ">>) \o <<")">>} :
    /\ d.currentTurn = c.currentTurn
    /\ d.currentAction = c.currentAction
    /\ AllActions(d) = AllActions(c)
    /\ Len(after) = Len(before) + (IF buffered = <<>> THEN 1 ELSE 2)
    /\ SubSeq(after, 1, Len(before)) = before
    /\ includes(LastOf(after).text, note)
    /\ buffered # <<>>
         => /\ after[Len(before) + 1].text
                 = join([i \in 1..Len(buffered) |-> buffered[i] \o <<" ","e","n","d","s">>],
                        <<";"," ">>)
            /\ d.pendingFieldEnds = <<>>

\* C3: a damage or heal record annotated with an end-of-turn source leaves
\* every action as it was and appends its detail to the trailing bucket of
\* the current turn; when field-ends are buffered, one line "... ends" with
\* all of them joined by "; " is appended just before the detail and the
\* buffer is empty afterwards.
EndOfTurnGrouping ==
  [][ Taken =>
        \A parts \in {Parts(LastOf(log'))} :
          (parts[1] \in DamageTags /\ Len(parts) >= 3) =>
            \A extras \in {parseExtras(parts, 3)} :
              (\E e \in RangeOf(extras) : isEndOfTurnSource(e))
                => EndOfTurnDetailPlaced(ctx, ctx', extras)
    ]_vars

\* C3, reached: with a move open and Trick Room's end buffered, the poison
\* damage is the second line of the trailing bucket, after "Trick Room ends".
EndOfTurnGrouped ==
  /\ status = "parsing"
  /\ log # <<>>
  /\ IsEndOfTurnRecord(LastOf(log))
  /\ HasAction(ctx)
  /\ CurAction(ctx).details = <<>>
  /\ ctx.pendingFieldEnds = <<>>
  /\ Len(CurTurn(ctx).endEvents) = 2
  /\ CurTurn(ctx).endEvents[1].text = <<"T","r","i","c","k"," ","R","o","o","m"," ","e","n","d","s">>
  /\ includes(CurTurn(ctx).endEvents[2].text, <<"(","p","s","n",")">>)

\* a line of the text output that is the head of a turn block: "T" and the
\* number of the turn
IsTurnHead(line) == Len(line) >= 2 /\ line[1] = "T" /\ line[2] \in Digits
TurnBlockCount ==
  Cardinality({i \in 1..Len(out.text) : IsTurnHead(out.text[i])})
\* the turns that have an action, a header line or a lead entry
FilledTurns ==
  {i \in 1..Len(ctx.turns) :
     \/ ctx.turns[i].actions # <<>>
     \/ ctx.turns[i].headerEvents # <<>>
     \/ ctx.turns[i].leadEntries # <<>>}

\* C4: the output has at most (number of turn records) + 1 turn blocks, and
\* no more blocks than there are turns with an action, a header line or a
\* lead entry: a turn without any of them has no block.
TurnBlocksBounded ==
  status = "done"
    => /\ TurnBlockCount <= Cardinality(RecordsTagged(<<"t","u","r","n">>)) + 1
       /\ TurnBlockCount <= Cardinality(FilledTurns)

\* C4, reached: two turn records, a move in the first turn only, one block.
EmptyTurnOmitted ==
  /\ status = "done"
  /\ Cardinality(RecordsTagged(<<"t","u","r","n">>)) = 2
  /\ Len(ctx.turns) = 3
  /\ ctx.turns[3].actions = <<>>
  /\ TurnBlockCount = 1

\* C5: an open action is an action of the current turn.
OpenActionInCurrentTurn ==
  HasAction(ctx)
    => /\ ctx.currentAction[1] = ctx.currentTurn
       /\ ctx.currentAction[2] \in 1..Len(CurTurn(ctx).actions)

\* C5, reached: an action is open in a turn that follows a turn with actions.
OpenActionAfterEarlierTurn ==
  /\ HasAction(ctx)
  /\ ctx.currentTurn > 1
  /\ \E i \in 1..(ctx.currentTurn - 1) : ctx.turns[i].actions # <<>>

\* C6: the current turn is the last turn of the list.
CurrentTurnIsLast == ctx.currentTurn = Len(ctx.turns)

\* C6, reached: two turns were appended after the lead turn, and the current
\* turn, numbered 2, has taken an action.
SecondTurnCurrent ==
  /\ Len(ctx.turns) = 3
  /\ CurTurn(ctx).turn = 2
  /\ CurTurn(ctx).actions # <<>>

\* C7: once a turn record is in the log, no record changes the lead turn, the
\* first turn of the list: it gets no action, header line, trailing detail or
\* lead entry.
LeadTurnNeverReentered ==
  [][ RecordsTagged(<<"t","u","r","n">>) # {} => ctx'.turns[1] = ctx.turns[1] ]_vars

\* C8: right after a turn record, no ability-boost aggregation is pending and
\* the field-end buffer, the fainted-this-turn set, the list of this turn's
\* moves and the pending-protect set are empty.
BuffersEmptyAfterTurn ==
  (status = "parsing" /\ log # <<>> /\ TagOf(LastOf(log)) = <<"t","u","r","n">>)
    => /\ ~ctx.pendingAbilityBoost.set
       /\ ctx.pendingFieldEnds = <<>>
       /\ ctx.faintedThisTurn = {}
       /\ ctx.recentMoves = <<>>
       /\ ctx.pendingProtects = {}

\* C9: the roster of a side has no two names with the same species id.
RosterIdsUnique ==
  \A side \in Sides :
    \A i, j \in 1..Len(Team(ctx, side)) :
      toId(Team(ctx, side)[i]) = toId(Team(ctx, side)[j]) => i = j

\* the log has a win record, no loss record and no forfeit message
WinnerOnly ==
  /\ RecordsTagged(<<"w","i","n">>) # {}
  /\ RecordsTagged(<<"l">>) = {}
  /\ \A i \in RecordsTagged(<<"-","m","e","s","s","a","g","e">>) :
       ~IsForfeit(join(Tail(Parts(log[i])), <<" ">>))
\* the name in the win record (the last one, when the log has several)
WinnerNamed ==
  Part(Parts(log[CHOOSE i \in RecordsTagged(<<"w","i","n">>) :
                   \A j \in RecordsTagged(<<"w","i","n">>) : j <= i]), 1)

\* C10: when the log has a win record that names one of the two players, no
\* loss record and no forfeit message, the loser of the metadata is the
\* display name of the other player.
LoserInferredFromWinner ==
  (status = "done" /\ WinnerOnly)
    => /\ toId(WinnerNamed) = toId(out.meta.players.p1)
            => out.meta.loser = out.meta.players.p2
       /\ toId(WinnerNamed) = toId(out.meta.players.p2)
            => out.meta.loser = out.meta.players.p1

\* C10, reached: only "Misty" is declared the winner; the loser is Ash.
LoserIsOtherPlayer ==
  /\ status = "done"
  /\ WinnerOnly
  /\ out.meta.winner = <<"M","i","s","t","y">>
  /\ out.meta.players.p2 = <<"M","i","s","t","y">>
  /\ out.meta.loser = <<"A","s","h">>

\* the number of actions of all turns
ActionCount(c) == Len(Concat(AllActions(c)))
\* the step takes a record whose case creates an action and leaves it open
ActionCreated ==
  Taken /\ HasAction(ctx') /\ ActionCount(ctx') > ActionCount(ctx)

\* C11: an action created for a pokemon whose species is in both rosters at
\* that moment carries a display name that ends with " (opp)" exactly when
\* the pokemon is on the second side.
MirrorNameDisambiguated ==
  [][ ActionCreated =>
        \A a \in {CurAction(ctx')} :
          (/\ HasMon(ctx', a.actorRef)
           /\ hasSpeciesOnBothSides(ctx', ctx'.pokemon[a.actorRef].species))
            => (resolveSide(a.actorRef) = P2
                  <=> endsWith(Str(a.actorName), <<" ","(","o","p","p",")">>)) ]_vars

\* C12: the call on the example log renders the header "Ash vs Misty" and a
\* T1 block whose one action line reads "Pikachu Thunderbolt -> Squirtle, 50%"
\* with the arrow character, and returns the winner Ash and the loser Misty.
EndToEndExample ==
  (status = "done" /\ CurrentData.log = ExampleLog)
    => /\ out.text[1] = <<"A","s","h"," ","v","s"," ","M","i","s","t","y">>
       /\ \E i \in 1..(Len(out.text) - 1) :
            /\ out.text[i] = <<"T","1">>
            /\ trim(out.text[i + 1])
                 = <<"P","i","k","a","c","h","u"," ","T","h","u","n","d","e","r","b","o","l","t"," ">> \o <<RightArrow>> \o <<" ","S","q","u","i","r","t","l","e",","," ","5","0","%">>
            /\ i + 2 <= Len(out.text) => ~startsWith(out.text[i + 2], <<" "," ">>)
       /\ out.meta.winner = <<"A","s","h">>
       /\ out.meta.loser = <<"M","i","s","t","y">>

\* the call i has returned or thrown
Finished(i) == i < Len(calls) \/ status \in {"done", "failed", "aborted"}
\* what the call i returned, or that it threw
Outcome(i) ==
  IF i < Len(calls) THEN calls[i].outcome ELSE [status |-> status, out |-> out]

\* C13: two calls on the same data end the same way, with the same markup,
\* the same text and the same metadata.
SameDataSameOutcome ==
  \A i, j \in 1..Len(calls) :
    (Finished(i) /\ Finished(j) /\ calls[i].data = calls[j].data)
      => Outcome(i) = Outcome(j)

\* C13, reached: the second call on the example has returned its summary.
ExampleSummarizedTwice ==
  /\ Len(calls) = 2
  /\ calls[1].data = calls[2].data
  /\ calls[1].data.log = ExampleLog
  /\ status = "done"
  /\ Len(out.text) = 4
  /\ Len(out.html) = 3

\* C14: a call whose data has no log, or an empty one, throws: no context is
\* constructed, no line is taken and no summary is returned.
MissingLogFails ==
  \A i \in 1..Len(calls) :
    ~Truthy(calls[i].data.log)
      => /\ Outcome(i) = [status |-> "failed", out |-> NoOutput]
         /\ i = Len(calls) => ctx = NoContext /\ log = <<>>

\* C14, reached: a call on an empty log and a call without a log have thrown.
BothMissingLogsFailed ==
  /\ Len(calls) = 2
  /\ calls[1].data.log = <<>>
  /\ calls[2].data.log = Undef
  /\ status = "failed"

\* C15: a record whose tag has no case raises no error and leaves the whole
\* context as it was.
UnknownTagIgnored ==
  [][ (/\ log' # log
       /\ log' # <<>>
       /\ ~IsSkipped(LastOf(log'))
       /\ TagOf(LastOf(log')) \notin RecognizedTags)
        => (ctx' = ctx /\ status' = status) ]_vars

\* C15, reached: an upkeep record was taken while a move was open.
UpkeepTakenInOpenMove ==
  /\ Len(log) = 2
  /\ TagOf(log[1]) = <<"m","o","v","e">>
  /\ TagOf(log[2]) = <<"u","p","k","e","e","p">>
  /\ status = "parsing"
  /\ HasAction(ctx)
  /\ ctx.recentMoves # <<>>

\* a markup line is the head of a turn block
IsMarkupTurnHead(line) ==
  /\ line # <<>>
  /\ line[1].k = "t"
  /\ startsWith(line[1].s, <<"<","d","i","v",">","<","s","t","r","o","n","g",">","T">>)
  /\ Len(line[1].s) > 14
  /\ line[1].s[15] \in Digits

\* C16: the text has the lines of the markup, in the same order, and after
\* them the line "<winner> Wins" exactly when a winner was recorded.
TextParallelToMarkup ==
  status = "done"
    => /\ Len(out.text)
            = Len(out.html) + (IF Truthy(out.meta.winner) THEN 1 ELSE 0)
       /\ \A i \in 1..Len(out.html) :
            IsTurnHead(out.text[i]) <=> IsMarkupTurnHead(out.html[i])
       /\ Truthy(out.meta.winner)
            => LastOf(out.text) = out.meta.winner \o <<" ","W","i","n","s">>

\* C16, reached: the header, the block of turn 1 with its move, and the
\* winner's line after them.
WinnerLineAfterMarkup ==
  /\ status = "done"
  /\ out.meta.winner = <<"A","s","h">>
  /\ Len(out.html) = 3
  /\ Len(out.text) = 4
  /\ out.text[2] = <<"T","1">>
  /\ out.text[4] = <<"A","s","h"," ","W","i","n","s">>

\* C17: "[from] <prefix>: X", the prefix being ability, item or move,
\* translates to "from X"; "[of] Y" to nothing; "[spread] ..." to a marker
\* that is not empty; an unknown tag to its content, or to the tag itself
\* when it has no content.
AnnotationTranslation ==
  util.fn = "simplifyBracketText"
    => /\ \A prefix \in {<<"a","b","i","l","i","t","y">>, <<"i","t","e","m">>, <<"m","o","v","e">>},
             x \in {<<"I","n","t","i","m","i","d","a","t","e">>, <<"L","e","f","t","o","v","e","r","s">>, <<"U","-","t","u","r","n">>} :
            util.arg = <<"[","f","r","o","m","]"," ">> \o prefix \o <<":"," ">> \o x
              => util.ret = <<"f","r","o","m"," ">> \o x
       /\ startsWith(util.arg, <<"[","o","f","]">>) => util.ret = <<>>
       /\ startsWith(util.arg, <<"[","s","p","r","e","a","d","]">>) => util.ret # <<>>
       /\ \A tag \in {<<"s","i","l","e","n","t">>, <<"u","p","k","e","e","p">>} :
            startsWith(util.arg, <<"[">> \o tag \o <<"]">>)
              => util.ret = Or(trim(Drop(util.arg, Len(tag) + 2)), tag)

\* C18: "48/100 psn" is displayed as "48% PSN" and "0 fnt" as "KO"; an HP
\* token followed by fnt is displayed as "KO", and a fraction X/100 as "X%"
\* followed by the status in upper case.
HPStatusDisplay ==
  util.fn = "formatHPStatus"
    => /\ util.arg = <<"4","8","/","1","0","0"," ","p","s","n">> => util.ret = <<"4","8","%"," ","P","S","N">>
       /\ util.arg = <<"0"," ","f","n","t">> => util.ret = <<"K","O">>
       /\ \A hp \in {<<"4","8","/","1","0","0">>, <<"0">>, <<"1","0","0","/","1","0","0">>, <<"7","/","1","0","0">>, <<"4","8","/","2","0","0">>,
                     <<"1","0","0">>, <<"a","/","1","0","0">>},
             sep \in {<<" ">>, <<" "," ">>},
             st \in {<<"f","n","t">>, <<"t","o","x"," ","f","n","t">>, <<"f","n","t"," ","s","l","p">>} :
            util.arg = hp \o sep \o st => util.ret = <<"K","O">>
       /\ \A x \in {<<"4","8">>, <<"1","0","0">>, <<"7">>},
             sep \in {<<" ">>, <<" "," ">>},
             st \in {<<<<>>, <<>>>>, <<<<"p","s","n">>, <<" ","P","S","N">>>>, <<<<"p","a","r">>, <<" ","P","A","R">>>>} :
            util.arg = x \o <<"/","1","0","0">> \o sep \o st[1]
              => util.ret = x \o <<"%">> \o st[2]

\* C18, reached: the token "48/100 psn" was displayed as "48% PSN".
PoisonedAt48Shown ==
  util = [fn |-> "formatHPStatus", arg |-> <<"4","8","/","1","0","0"," ","p","s","n">>, ret |-> <<"4","8","%"," ","P","S","N">>]

\* what is left of a character of NameChars in an identifier; a hyphen is
\* left when hyphens are kept
IdOfChar(ch, hyphens) ==
  CASE ch = "M" -> <<"m">>
    [] ch = "H" -> <<"h">>
    [] ch \in {"r", "o", "0"} -> <<ch>>
    [] ch = "-" -> IF hyphens THEN <<"-">> ELSE <<>>
    [] OTHER -> <<>>
IdOfName(text, hyphens) ==
  Concat([i \in 1..Len(text) |-> IdOfChar(text[i], hyphens)])

\* C19: toId lower-cases a name and removes every character other than a-z
\* and 0-9 ("Mr. Mime" gives "mrmime"); toIconId does the same and keeps the
\* hyphens ("Ho-Oh" gives "ho-oh"); applied to their own result they return
\* it unchanged.
IdNormalization ==
  /\ util.fn = "toId"
       => /\ util.arg = <<"M","r","."," ","M","i","m","e">> => util.ret = <<"m","r","m","i","m","e">>
          /\ util.arg \in NamesUpTo(MaxLen) => util.ret = IdOfName(util.arg, FALSE)
          /\ \A i \in 1..Len(util.ret) : util.ret[i] \in LowerLetters \cup Digits
          /\ toId(util.ret) = util.ret
  /\ util.fn = "toIconId"
       => /\ util.arg = <<"H","o","-","O","h">> => util.ret = <<"h","o","-","o","h">>
          /\ util.arg \in NamesUpTo(MaxLen) => util.ret = IdOfName(util.arg, TRUE)
          /\ \A i \in 1..Len(util.ret) :
               util.ret[i] \in LowerLetters \cup Digits \cup {"-"}
          /\ toIconId(util.ret) = util.ret

\* C19, reached: the identifier of "Mr. Mime" is "mrmime".
MrMimeNormalized ==
  util = [fn |-> "toId", arg |-> <<"M","r","."," ","M","i","m","e">>, ret |-> <<"m","r","m","i","m","e">>]

\* the switch record l carries one annotation, which names an ability or an
\* item as its source
IsAbilityOrItemSwitch(l) ==
  /\ TagOf(l) \in SwitchTags
  /\ Len(Parts(l)) = 5
  /\ \/ startsWith(Parts(l)[5], <<"[","f","r","o","m","]"," ","a","b","i","l","i","t","y",":"," ">>)
     \/ startsWith(Parts(l)[5], <<"[","f","r","o","m","]"," ","i","t","e","m",":"," ">>)

\* C20: a switch, drag or replace record for the actor of the open move whose
\* only annotation names an ability or an item is not merged into the move:
\* the details of the move stay as they are, and the record adds a switch
\* action to the turn, or a lead entry in the lead phase.
AbilitySwitchNotMerged ==
  [][ (/\ Taken
       /\ HasAction(ctx)
       /\ CurAction(ctx).type = "move"
       /\ IsAbilityOrItemSwitch(LastOf(log'))
       /\ RecordRef(LastOf(log')) = CurAction(ctx).actorRef)
        => /\ ctx'.turns[ctx.currentAction[1]].actions[ctx.currentAction[2]].details
                = CurAction(ctx).details
           /\ IF ctx.leadPhase
                THEN Len(CurTurn(ctx').leadEntries)
                       = Len(CurTurn(ctx).leadEntries) + 1
                ELSE /\ Len(CurTurn(ctx').actions)
                          = Len(CurTurn(ctx).actions) + 1
                     /\ LastOf(CurTurn(ctx').actions).type = "switch" ]_vars

\* a trailing detail written from the field-end buffer
IsFieldEndLine(d) == endsWith(d.text, <<" ","e","n","d","s">>)
\* the effects named by the field-end lines of the trailing bucket of turn t
FieldEndsWritten(c, t) ==
  Concat([i \in 1..Len(c.turns[t].endEvents) |->
            IF IsFieldEndLine(c.turns[t].endEvents[i])
              THEN split(c.turns[t].endEvents[i].text, ";")
              ELSE <<>>])
FieldEndsWrittenCount(c) ==
  Len(Concat([t \in 1..Len(c.turns) |-> FieldEndsWritten(c, t)]))

\* C21: when rendering starts the field-end buffer is empty and every
\* field-end record of the log is written in a trailing bucket, once.
FieldEndsAllEmitted ==
  status = "done"
    => /\ ctx.pendingFieldEnds = <<>>
       /\ FieldEndsWrittenCount(ctx) = Cardinality(RecordsTagged(<<"-","f","i","e","l","d","e","n","d">>))

\* C22: the trailing bucket of a turn has at most one line written from the
\* field-end buffer.
FieldEndsOneLinePerTurn ==
  \A t \in 1..Len(ctx.turns) :
    Cardinality({i \in 1..Len(ctx.turns[t].endEvents) :
                   IsFieldEndLine(ctx.turns[t].endEvents[i])}) <= 1

\* C23: a field-end record appends one entry to the field-end buffer and
\* changes nothing else: every turn keeps its header lines, actions and
\* trailing details, and the open action and the current turn stay.
FieldEndOnlyBuffered ==
  [][ (Taken /\ TagOf(LastOf(log')) = <<"-","f","i","e","l","d","e","n","d">>)
        => /\ Len(ctx'.pendingFieldEnds) = Len(ctx.pendingFieldEnds) + 1
           /\ SubSeq(ctx'.pendingFieldEnds, 1, Len(ctx.pendingFieldEnds))
                = ctx.pendingFieldEnds
           /\ ctx'.turns = ctx.turns
           /\ ctx'.currentAction = ctx.currentAction
           /\ ctx'.currentTurn = ctx.currentTurn
           /\ [ctx' EXCEPT !.pendingFieldEnds = ctx.pendingFieldEnds] = ctx
    ]_vars

\* C23, reached: in turn 1, with Thunderbolt open, the end of Trick Room and
\* then the end of Grassy Terrain were taken; both wait in the buffer and the
\* turn has no trailing detail.
TwoFieldEndsBuffered ==
  /\ status = "parsing"
  /\ Len(log) >= 2
  /\ TagOf(LastOf(log)) = <<"-","f","i","e","l","d","e","n","d">>
  /\ HasAction(ctx)
  /\ CurTurn(ctx).turn = 1
  /\ CurTurn(ctx).endEvents = <<>>
  /\ ctx.pendingFieldEnds = <<<<"T","r","i","c","k"," ","R","o","o","m">>, <<"G","r","a","s","s","y"," ","T","e","r","r","a","i","n">>>>

\* C24: when rendering starts no ability-boost aggregation is pending: each
\* one that was started has been written as its combined line.
AbilityBoostEmitted == status = "done" => ~ctx.pendingAbilityBoost.set

\* the lines of all turns: header lines, details of actions, trailing details
LineCount(c) ==
  Len(Concat([t \in 1..Len(c.turns) |->
                c.turns[t].headerEvents \o c.turns[t].endEvents
                \o Concat([a \in 1..Len(c.turns[t].actions) |->
                             c.turns[t].actions[a].details])]))
\* the verbs of the actions of all turns
Verbs(c) ==
  [t \in 1..Len(c.turns) |->
     [a \in 1..Len(c.turns[t].actions) |-> c.turns[t].actions[a].verb]]
\* the record has a source annotation after its amount
IsAnnotated(parts) == \E i \in 5..Len(parts) : startsWith(parts[i], <<"[">>)
\* the open action of c is a move of the pokemon ref that targets nobody else
IsOpenSelfMove(c, ref) ==
  /\ HasAction(c)
  /\ CurAction(c).type = "move"
  /\ CurAction(c).actorRef = ref
  /\ CurAction(c).targetNames \in {<<>>, <<CurAction(c).actorName>>}
\* the three effects of a boost record on the step from c to d
BoostAggregated(c, d) ==
  /\ Len(d.pendingAbilityBoost.boosts) = Len(c.pendingAbilityBoost.boosts) + 1
  /\ d.turns = c.turns
BoostInlined(c, d) ==
  /\ d.pendingAbilityBoost = c.pendingAbilityBoost
  /\ LineCount(d) = LineCount(c)
  /\ HasAction(c)
  /\ Verbs(d) = [Verbs(c) EXCEPT ![c.currentAction[1]][c.currentAction[2]] =
                                    CurAction(d).verb]
  /\ Len(CurAction(d).verb) > Len(CurAction(c).verb)
  /\ startsWith(CurAction(d).verb, CurAction(c).verb \o <<","," ">>)
BoostDetailed(c, d) ==
  /\ d.pendingAbilityBoost = c.pendingAbilityBoost
  /\ Verbs(d) = Verbs(c)
  /\ LineCount(d) = LineCount(c) + 1

\* C29: a boost or unboost record has exactly one effect: with an aggregation
\* pending and no source annotation its entry joins the aggregation; else,
\* with the open action a move of the same pokemon that targets nobody else
\* and no source annotation, its text joins the verb of that move; else one
\* detail is appended.
BoostOneOfThree ==
  [][ (Taken /\ TagOf(LastOf(log')) \in BoostTags) =>
        \A parts \in {Parts(LastOf(log'))} :
          IF ctx.pendingAbilityBoost.set /\ ~IsAnnotated(parts)
            THEN /\ BoostAggregated(ctx, ctx')
                 /\ ~BoostInlined(ctx, ctx') /\ ~BoostDetailed(ctx, ctx')
          ELSE IF IsOpenSelfMove(ctx, RecordRef(LastOf(log')))
                  /\ ~IsAnnotated(parts)
            THEN /\ BoostInlined(ctx, ctx')
                 /\ ~BoostAggregated(ctx, ctx') /\ ~BoostDetailed(ctx, ctx')
            ELSE /\ BoostDetailed(ctx, ctx')
                 /\ ~BoostAggregated(ctx, ctx') /\ ~BoostInlined(ctx, ctx')
    ]_vars

\* C29, reached: Swords Dance is open, Intimidate's aggregation is pending,
\* and the boost of Pikachu's attack joined the aggregation: the verb of the
\* move is as it was and no line was added.
BoostJoinedAggregation ==
  /\ status = "parsing"
  /\ log # <<>>
  /\ TagOf(LastOf(log)) \in BoostTags
  /\ IsOpenSelfMove(ctx, RecordRef(LastOf(log)))
  /\ CurAction(ctx).verb = <<"S","w","o","r","d","s"," ","D","a","n","c","e">>
  /\ CurAction(ctx).details = <<>>
  /\ ctx.pendingAbilityBoost.set
  /\ Len(ctx.pendingAbilityBoost.boosts) = 1

\* C25: the lead-phase flag starts true; right after a turn record no action
\* is open and the flag is false; once false, the flag stays false.
LeadPhaseLeftForGood ==
  /\ ctx.leadPhase
  /\ [][ /\ (Taken /\ TagOf(LastOf(log')) = <<"t","u","r","n">>)
             => (~HasAction(ctx') /\ ~ctx'.leadPhase)
         /\ ~ctx.leadPhase => ~ctx'.leadPhase
       ]_vars

\* C25, reached: a move was open in turn 1 when the record of turn 2 came;
\* no action is open and the lead phase is over.
TurnRecordClosedMove ==
  /\ status = "parsing"
  /\ Len(log) >= 3
  /\ TagOf(LastOf(log)) = <<"t","u","r","n">>
  /\ TagOf(log[Len(log) - 1]) = <<"m","o","v","e">>
  /\ CurTurn(ctx).turn = 2
  /\ ctx.turns[ctx.currentTurn - 1].actions # <<>>
  /\ ~HasAction(ctx)
  /\ ~ctx.leadPhase

\* C26: while the lead phase lasts no action is open and the lead turn has no
\* action.
NoActionInLeadPhase ==
  ctx.leadPhase => (~HasAction(ctx) /\ ctx.turns[1].actions = <<>>)

\* the number of the turn record at index i of the log l, and the number of
\* the turn that is current before the record at index i
TurnRecordNumber(l, i) == Number(Part(Parts(l[i]), 1))
TurnNumberBefore(l, i) ==
  IF \A j \in 1..(i - 1) : TagOf(l[j]) # <<"t","u","r","n">> THEN 0
  ELSE TurnRecordNumber(l, CHOOSE j \in 1..(i - 1) :
                             /\ TagOf(l[j]) = <<"t","u","r","n">>
                             /\ \A k \in (j + 1)..(i - 1) : TagOf(l[k]) # <<"t","u","r","n">>)
\* the record at index i of l starts a new turn
StartsTurn(l, i) ==
  TagOf(l[i]) = <<"t","u","r","n">> /\ TurnRecordNumber(l, i) # TurnNumberBefore(l, i)
\* l has a faint record that no later record of l follows with a new turn
FaintInCurrentTurn(l) ==
  \E i \in 1..Len(l) :
    /\ TagOf(l[i]) = <<"f","a","i","n","t">>
    /\ \A j \in (i + 1)..Len(l) : ~StartsTurn(l, j)

\* C27: a switch record taken after the lead phase that is not merged into a
\* move creates a switch action; its verb is "enters", with no from name and
\* no from icon, when a faint record was taken earlier in the current turn;
\* otherwise its verb is "switches" and its from name and icon are those the
\* pokemon of the same ref had just before the record.
SwitchVerbSelection ==
  [][ (/\ ActionCreated
       /\ TagOf(LastOf(log')) \in SwitchTags
       /\ ~ctx.leadPhase)
        => \A a \in {CurAction(ctx')}, r \in {RecordRef(LastOf(log'))} :
             /\ a.type = "switch"
             /\ IF FaintInCurrentTurn(log)
                  THEN /\ a.verb = <<"e","n","t","e","r","s">>
                       /\ a.fromName = Undef
                       /\ a.fromIconId = Undef
                  ELSE /\ a.verb = <<"s","w","i","t","c","h","e","s">>
                       /\ a.fromName = MonName(ctx, r)
                       /\ a.fromIconId = MonIconId(ctx, r)
    ]_vars

\* C28: a faint record for the pokemon r leaves r's entry marked as fainted
\* and r in the fainted-this-turn set, and changes no turn: it adds no action
\* and no detail.
FaintRecorded ==
  [][ (Taken /\ TagOf(LastOf(log')) = <<"f","a","i","n","t">>)
        => \A r \in {RecordRef(LastOf(log'))} :
             /\ HasMon(ctx', r)
             /\ ctx'.pokemon[r].fainted
             /\ r \in ctx'.faintedThisTurn
             /\ ctx'.turns = ctx.turns
             /\ ctx'.currentAction = ctx.currentAction
    ]_vars

\* the indices of the move records of l that no later record of l follows
\* with a new turn, in order
RECURSIVE MovesThisTurn(_, _)
MovesThisTurn(l, i) ==
  IF i = 0 \/ StartsTurn(l, i) THEN <<>>
  ELSE IF TagOf(l[i]) = <<"m","o","v","e">>
    THEN Append(MovesThisTurn(l, i - 1), prettifyMove(Part(Parts(l[i]), 2)))
    ELSE MovesThisTurn(l, i - 1)
\* the this-turn move list holds the moves of the current turn
RecentMovesOfTurn ==
  status = "parsing"
    => [i \in 1..Len(ctx.recentMoves) |-> ctx.recentMoves[i].move]
         = MovesThisTurn(log, Len(log))
\* the start record has an ability as its source and names the pokemon: its
\* third field has "[from] ability:" and a name after it, its fourth "[of]" and
\* a pokemon after it
IsAbilityStart(parts) == SourceRefRaw(parts) # <<>>
\* the step takes a field-start record whose normalized effect name is the
\* name of a move recorded earlier in the current turn
ImpliedStartTaken ==
  /\ Taken
  /\ TagOf(LastOf(log')) = <<"-","f","i","e","l","d","s","t","a","r","t">>
  /\ Contains(MovesThisTurn(log, Len(log)),
              normalizeFieldName(Part(Parts(LastOf(log')), 1)))
\* no turn gets a header line, a verb or a detail on the step
NoLineWritten ==
  /\ ctx'.turns = ctx.turns
  /\ ctx'.currentAction = ctx.currentAction

\* C30 as stated: every field-start record whose normalized effect name is
\* the name of a move recorded earlier in the same turn writes no line, and
\* the this-turn move list holds exactly the moves of the current turn.
ImpliedStartAlwaysSuppressed ==
  /\ [](RecentMovesOfTurn)
  /\ [][ ImpliedStartTaken => NoLineWritten ]_vars

\* C30, amended: a field-start record that has no ability as its source (or
\* names no pokemon with it) and whose normalized effect name is the name of
\* a move recorded earlier in the same turn writes no line: no header line,
\* no verb and no trailing detail changes; the this-turn move list holds
\* exactly the moves of the current turn.
ImpliedStartSuppressed ==
  /\ [](RecentMovesOfTurn)
  /\ [][ (ImpliedStartTaken /\ ~IsAbilityStart(Parts(LastOf(log'))))
           => NoLineWritten ]_vars

\* C30, reached: Pikachu used Psychic Terrain and the start of Psychic Terrain
\* was taken in the same turn: the turn has the move, with its verb as it
\* was, and no header line or trailing detail.
TerrainStartSuppressed ==
  /\ status = "parsing"
  /\ Len(log) >= 2
  /\ LastOf(log) = <<"|","-","f","i","e","l","d","s","t","a","r","t","|","m","o","v","e",":"," ","P","s","y","c","h","i","c"," ","T","e","r","r","a","i","n">>
  /\ MovesThisTurn(log, Len(log)) = <<<<"P","s","y","c","h","i","c"," ","T","e","r","r","a","i","n">>>>
  /\ Len(ctx.recentMoves) = 1
  /\ Len(CurTurn(ctx).actions) = 1
  /\ CurAction(ctx).verb = <<"P","s","y","c","h","i","c"," ","T","e","r","r","a","i","n">>
  /\ CurTurn(ctx).headerEvents = <<>>
  /\ CurTurn(ctx).endEvents = <<>>

\* the step takes a weather record that starts a weather (not "none", not an
\* upkeep, not the current weather) whose id is the id of a move recorded
\* earlier in the current turn
ImpliedWeatherTaken ==
  /\ Taken
  /\ TagOf(LastOf(log')) = <<"-","w","e","a","t","h","e","r">>
  /\ \A parts \in {Parts(LastOf(log'))} :
       /\ Len(parts) = 2
       /\ parts[2] # <<"n","o","n","e">>
       /\ parts[2] # ctx.currentWeather
       /\ \E i \in 1..Len(MovesThisTurn(log, Len(log))) :
            toId(MovesThisTurn(log, Len(log))[i]) = toId(parts[2])

\* C31: a weather record that starts a weather implied by a move recorded
\* earlier in the same turn writes no line.
ImpliedWeatherSuppressed ==
  [][ ImpliedWeatherTaken
        => (ctx'.turns = ctx.turns /\ ctx'.currentAction = ctx.currentAction)
    ]_vars

\* the side and the condition id of a side-start or side-end record
RecordSide(l) == resolveSide(Part(Parts(l), 1))
RecordCondition(l) == toId(Part(Parts(l), 2))
\* the records of l with the tag tag that name the side and condition of r
SameCondition(l, tag, r) ==
  {i \in 1..Len(l) : /\ TagOf(l[i]) = tag
                     /\ RecordSide(l[i]) = RecordSide(r)
                     /\ RecordCondition(l[i]) = RecordCondition(r)}
\* the condition of the record r was started on its side by a record of l
\* and no later record of l ended it
ActiveIn(l, r) ==
  \E i \in SameCondition(l, <<"-","s","i","d","e","s","t","a","r","t">>, r) :
    \A j \in SameCondition(l, <<"-","s","i","d","e","e","n","d">>, r) : j < i
\* the announcements of the end of the condition of r on its side
EndAnnouncements(c, r) ==
  Len(SelectSeq(
        Concat([t \in 1..Len(c.turns) |->
                  c.turns[t].headerEvents
                  \o [i \in 1..Len(c.turns[t].endEvents) |->
                        c.turns[t].endEvents[i].text]]),
        LAMBDA line :
          line = <<"S","i","d","e"," ","c","o","n","d","i","t","i","o","n"," ","e","n","d","e","d",":"," ">> \o RecordSide(r) \o <<" ","-",">"," ">>
                 \o Part(Parts(r), 2)))

\* C32: a side-start record writes no line; a side-end record writes exactly
\* one announcement when an earlier side-start recorded the same condition
\* (by id) for that side and no side-end ended it since, and changes nothing
\* otherwise; so the announcements of a condition's end on a side are never
\* more than its side-start records.
SideEndAnnouncedIfActive ==
  /\ [](status = "parsing" =>
          \A i \in RecordsTagged(<<"-","s","i","d","e","e","n","d">>) :
            EndAnnouncements(ctx, log[i])
              <= Cardinality(SameCondition(log, <<"-","s","i","d","e","s","t","a","r","t">>, log[i])))
  /\ [][ /\ (Taken /\ TagOf(LastOf(log')) = <<"-","s","i","d","e","s","t","a","r","t">>)
           => (ctx'.turns = ctx.turns /\ ctx'.currentAction = ctx.currentAction)
         /\ (Taken /\ TagOf(LastOf(log')) = <<"-","s","i","d","e","e","n","d">>)
           => IF ActiveIn(log, LastOf(log'))
                THEN /\ LineCount(ctx') = LineCount(ctx) + 1
                     /\ Verbs(ctx') = Verbs(ctx)
                     /\ EndAnnouncements(ctx', LastOf(log'))
                          = EndAnnouncements(ctx, LastOf(log')) + 1
                ELSE ctx' = ctx
       ]_vars

\* C32, reached: Reflect was started on both sides and ended on the first,
\* and a second end of it on the first side was taken: one announcement for
\* the first side, none for the second, where Reflect is still active.
ReflectEndAnnouncedOnce ==
  /\ status = "parsing"
  /\ Len(log) = 4
  /\ log[3] = <<"|","-","s","i","d","e","e","n","d","|","p","1",":"," ","A","s","h","|","R","e","f","l","e","c","t">>
  /\ log[4] = <<"|","-","s","i","d","e","e","n","d","|","p","1",":"," ","A","s","h","|","R","e","f","l","e","c","t">>
  /\ EndAnnouncements(ctx, log[4]) = 1
  /\ LineCount(ctx) = 1
  /\ ctx.sideConditions.p1 = {}
  /\ ctx.sideConditions.p2 = {<<"r","e","f","l","e","c","t">>}

\* the pokemon ref is a target of the open action of c
IsOpenTarget(c, ref) ==
  HasAction(c) /\ Contains(CurAction(c).targetRefs, ref)
\* what C33 asks of the step from c to d that takes a Protect or immunity
\* record of the pokemon ref, whose suffix is marker
TargetNamePatched(c, d, ref, marker) ==
  IF ~IsOpenTarget(c, ref) THEN d = c
  ELSE \A i \in {ListIndexOf(CurAction(c).targetRefs, ref)},
          name \in {CurAction(c).targetNames[ListIndexOf(CurAction(c).targetRefs, ref)]} :
         /\ LineCount(d) = LineCount(c)
         /\ d = [c EXCEPT
                   !.turns[c.currentAction[1]].actions[c.currentAction[2]]
                     .targetNames[i] = CurAction(d).targetNames[i]]
         /\ CurAction(d).targetNames[i]
              = IF includes(name, marker) THEN name ELSE name \o <<" ">> \o marker

\* C33: an activate record of a Protect effect and an immunity record add no
\* line; when their pokemon is a target of the open action its display name
\* in that action gains " (Protect)" or " (immune)", once however many such
\* records follow; when it is no target nothing changes.
ProtectImmunePatch ==
  [][ Taken =>
        \A parts \in {Parts(LastOf(log'))} :
          /\ (parts[1] = <<"-","a","c","t","i","v","a","t","e">> /\ includes(toLowerCase(parts[3]), <<"p","r","o","t","e","c","t">>))
               => TargetNamePatched(ctx, ctx', RecordRef(LastOf(log')), <<"(","P","r","o","t","e","c","t",")">>)
          /\ parts[1] = <<"-","i","m","m","u","n","e">>
               => TargetNamePatched(ctx, ctx', RecordRef(LastOf(log')), <<"(","i","m","m","u","n","e",")">>)
    ]_vars

\* C33, reached: Thunderbolt at Squirtle is open and Squirtle's Protect was
\* taken twice and its immunity once: the target name has each suffix once.
ProtectSuffixOnce ==
  /\ status = "parsing"
  /\ Len(log) = 4
  /\ HasAction(ctx)
  /\ CurAction(ctx).verb = <<"T","h","u","n","d","e","r","b","o","l","t">>
  /\ CurAction(ctx).details = <<>>
  /\ Cardinality({i \in 1..Len(log) :
                    log[i] = <<"|","-","a","c","t","i","v","a","t","e","|","p","2","a",":"," ","S","q","u","i","r","t","l","e","|","m","o","v","e",":"," ","P","r","o","t","e","c","t">>}) = 2
  /\ \E n \in {CurAction(ctx).targetNames[1]} :
       /\ endsWith(n, <<" ","(","P","r","o","t","e","c","t",")"," ","(","i","m","m","u","n","e",")">>)
       /\ ~includes(SubSeq(n, 1, Len(n) - Len(<<" ","(","P","r","o","t","e","c","t",")"," ","(","i","m","m","u","n","e",")">>)), <<"(">>)

\* C34: a Terastallize record adds one line, "Terastallize" with the pokemon
\* and its new type, to the header events of the current turn.
TerastallizeInHeader ==
  [][ (Taken /\ TagOf(LastOf(log')) = <<"-","t","e","r","a","s","t","a","l","l","i","z","e">>)
        => /\ ctx'.currentTurn = ctx.currentTurn
           /\ Len(CurTurn(ctx').headerEvents) = Len(CurTurn(ctx).headerEvents) + 1
           /\ startsWith(LastOf(CurTurn(ctx').headerEvents), <<"T","e","r","a","s","t","a","l","l","i","z","e"," ">>)
    ]_vars

\* the actions with details of the turns that are not numbered 0
DetailedActions(c) ==
  {a \in UNION {RangeOf(c.turns[t].actions) :
                  t \in {u \in 1..Len(c.turns) : c.turns[u].turn # 0}} :
     a.details # <<>>}
Comma == <<","," ">>
Dash == <<" ", EmDash, " ">>
\* the text output has a line of the action a with sep after the headline
HasLineWith(a, sep) ==
  \E i \in 1..Len(out.text) :
    startsWith(out.text[i], <<" "," ">> \o actionHeadline(a).text \o sep)
\* every action line with details has its headline followed by Sep(a), one
\* of the two separators, and none has it followed by the other
SeparatorsAre(Sep(_)) ==
  status = "done"
    => \A a \in DetailedActions(ctx) :
         /\ Sep(a) \in {Comma, Dash}
         /\ HasLineWith(a, Sep(a))
         /\ \A other \in {Comma, Dash} \ {Sep(a)} : ~HasLineWith(a, other)
\* the action targets one other party and all its details are stat deltas
OneOtherTargetAllDeltas(a) ==
  /\ Len(a.targetRefs) = 1
  /\ a.targetRefs[1] # a.actorRef
  /\ \A i \in 1..Len(a.details) : IsBoostText(trim(a.details[i].text))
\* the action is a move with one target name, the user's own included
OneTargetMove(a) ==
  /\ a.type = "move"
  /\ Len(a.targetNames) = 1
  /\ ~includes(a.verb, <<"s","p","r","e","a","d">>)
SeparatorAsStated(a) == IF OneOtherTargetAllDeltas(a) THEN Comma ELSE Dash
SeparatorOfMove(a) == IF OneTargetMove(a) THEN Comma ELSE Dash

\* C35 as stated: an action line with details has a comma between headline
\* and details when the action targets exactly one other party and every
\* detail is a stat delta, and a dash in every other case.
SeparatorByDetails == SeparatorsAre(SeparatorAsStated)

\* C35, amended: an action line with details has a comma between headline
\* and details when the action is a move with exactly one target, whatever
\* its details and the user itself included, and a dash in every other case.
SeparatorByTarget == SeparatorsAre(SeparatorOfMove)

\* C35, reached: in turn 1 Thunderbolt at Squirtle, with an HP change as its
\* only detail, is rendered with a comma after the headline.
CommaBeforeHPChange ==
  /\ status = "done"
  /\ \E a \in DetailedActions(ctx) :
       /\ a.verb = <<"T","h","u","n","d","e","r","b","o","l","t">>
       /\ Len(a.details) = 1
       /\ ~IsBoostText(a.details[1].text)
       /\ HasLineWith(a, Comma)
       /\ ~HasLineWith(a, Dash)

\* the action b is the action a with its display data kept: the same actor
\* name and icon, the same from name and icon, the same target species, and
\* each target name the same or with " (Protect)" or " (immune)" added
DisplayKept(a, b) ==
  /\ b.actorRef = a.actorRef
  /\ b.actorName = a.actorName
  /\ b.actorIconId = a.actorIconId
  /\ b.fromName = a.fromName
  /\ b.fromIconId = a.fromIconId
  /\ b.targetSpecies = a.targetSpecies
  /\ Len(b.targetNames) = Len(a.targetNames)
  /\ \A i \in 1..Len(a.targetNames) :
       b.targetNames[i] \in {a.targetNames[i],
                             a.targetNames[i] \o <<" ","(","P","r","o","t","e","c","t",")">>,
                             a.targetNames[i] \o <<" ","(","i","m","m","u","n","e",")">>}

\* C36: no step changes the display data of an action that exists: its actor
\* name and icon and its from name and icon stay, and a target name changes
\* only by gaining " (Protect)" or " (immune)".
DisplayDataFrozen ==
  [][ \A t \in 1..Len(ctx.turns) :
        /\ t <= Len(ctx'.turns)
        /\ \A a \in 1..Len(ctx.turns[t].actions) :
             /\ a <= Len(ctx'.turns[t].actions)
             /\ DisplayKept(ctx.turns[t].actions[a], ctx'.turns[t].actions[a])
    ]_vars

\* C36, reached: Pikachu used a move from p1a, then Raichu switched into p1a:
\* the move still has Pikachu's name and icon, which the registry entry of
\* p1a no longer has.
MoveKeepsFormerOccupant ==
  /\ status = "parsing"
  /\ Len(CurTurn(ctx).actions) >= 2
  /\ \E a \in {CurTurn(ctx).actions[1]} :
       /\ a.type = "move"
       /\ a.actorRef = <<"p","1","a">>
       /\ HasMon(ctx, a.actorRef)
       /\ a.actorName = <<"P","i","k","a","c","h","u">>
       /\ MonName(ctx, a.actorRef) = <<"R","a","i","c","h","u">>
       /\ a.actorIconId # MonIconId(ctx, a.actorRef)

\* C37: the icon identifier of every registry entry is the one of its
\* species: the icon-normalization of the species, or the default identifier
\* when that is empty.
IconFollowsSpecies ==
  \A ref \in DOMAIN ctx.pokemon :
    ctx.pokemon[ref].iconId
      = Or(toIconId(ctx.pokemon[ref].species), DEFAULT_ICON_ID)

\* C38: the result of a rendered replay never names one player as winner and
\* as loser: the winner and the loser of the metadata differ when both are
\* set, and the header gives no player who is the winner the tag [L].
WinnerIsNotLoser ==
  out.done =>
    /\ (Truthy(out.meta.winner) /\ Truthy(out.meta.loser))
         => toId(out.meta.winner) # toId(out.meta.loser)
    /\ \A side \in Sides :
         (Truthy(ctx.winner) /\ toId(ctx.winner) = toId(ctx.players[SideKey(side)]))
           => playerTag(ctx, side) # <<"[","L","]"," ">>

\* the text output has a line that contains s
TextHas(s) == \E i \in 1..Len(out.text) : includes(out.text[i], s)

\* C39: the rendering loses nothing: in the text of a rendered replay, every
\* action of every turn of the context has its line, and every header line
\* and every trailing detail of every turn appears, the turn numbered 0 and
\* the turns that hold only trailing details included.
NothingLostAtRender ==
  out.done =>
    \A t \in 1..Len(ctx.turns) :
      /\ \A a \in 1..Len(ctx.turns[t].actions) :
           HasLineWith(ctx.turns[t].actions[a], <<>>)
      /\ \A h \in 1..Len(ctx.turns[t].headerEvents) :
           TextHas(ctx.turns[t].headerEvents[h])
      /\ \A e \in 1..Len(ctx.turns[t].endEvents) :
           TextHas(ctx.turns[t].endEvents[e].text)

====
